---- MODULE Spec2Model ----
(***************************************************************************)
(* The Signal-to-Site pipeline (signal_to_site/pipeline.py): run and       *)
(* run_single drive each signal through enrich -> research -> generate     *)
(* page -> deploy -> draft outreach -> (send email) -> notify.  Every      *)
(* collaborator call is one step; a call either returns a value of its     *)
(* type or raises, and _process_signal's try/except decides what a raise   *)
(* does.  calls is the history of collaborator calls made by the pipeline. *)
(***************************************************************************)
EXTENDS Integers, Sequences, FiniteSets, TLC

\* Longest list the signal source holds.
MaxSignals == 2

\* Longest company name handed to _generate_slug.
MaxNameLen == 4

\* Python's None for Optional[str]; an Optional object is a sequence of
\* length 0 (None) or 1.
None == "None"
NoObject == << >>

VARIABLES
    source,        \* the list of signals the SignalSource holds
    max_signals,   \* PipelineConfig.max_signals
    json_mode,     \* cli.main: "--json" in args
    entry,         \* which public method was called: "none", "run", "run_single"
    pc,            \* "idle", "processing", "returned", "raised"; "exited": main is over
    send_emails,   \* the send_emails / send_email argument
    args,          \* the other arguments of the call of run or run_single
    asked,         \* the keyword arguments run passed to get_signals
    signals,       \* run: the fetched list; run_single: the synthesized signal
    idx,           \* position in signals of the signal being processed
    stage,         \* position inside _process_signal
    company,       \* _process_signal locals
    page,
    page_url,
    outreach,
    email_sent,
    results,       \* run's results list
    ret,           \* the value returned: run's list, or run_single's Optional result
    calls,         \* history: one record per collaborator call
    stdout,        \* the JSON documents printed so far
    company_name,  \* _generate_slug: the argument, a sequence of characters
    slug,          \* _generate_slug: the value returned (unset before the call)
    given,         \* an AI-backed stage: the Company it is handed
    response,      \* an AI-backed stage: what the completion call did
    returned,      \* an AI-backed stage: how the stage ended (unset before)
    env,           \* os.environ, as far as main and the factories read it
    argv,          \* the mode flags among sys.argv[1:]
    components,    \* the collaborators __init__ built, then self.config (unset before)
    command,       \* a sub-stage command: args[0]
    stdin_data,    \* a sub-stage command: the object read from standard input
    company_domain, \* enrich_company: the argument, a sequence of characters
    lookup,        \* enrich_company: the client, and what its entity search came to
    enriched,      \* enrich_company: how the call ended (unset before)
    twice_input,   \* the company and page URL both calls are given
    answers,       \* what each call made so far returned
    batch,         \* the signals run goes through
    taken,         \* how many signals of the batch were processed
    current,       \* the Company object the signal in process works on (a reference)
    objects,       \* the Company objects made so far, by reference
    held           \* run: results, its entries holding references

vars == << source, max_signals, json_mode, entry, pc, send_emails, args, asked,
           signals, idx, stage, company, page, page_url, outreach, email_sent,
           results, ret, calls, stdout, company_name, slug,
           given, response, returned, env, argv, components,
           command, stdin_data,
           company_domain, lookup, enriched,
           twice_input, answers,
           batch, taken, current, objects, held >>

\* An AI-backed stage taken on its own.
ai == << given, response, returned >>

\* What the pipeline is constructed from, and with.
built == << env, argv, components >>

\* A sub-stage command of the command line.
sub == << command, stdin_data >>

\* enrich_company taken on its own.
enricher == << company_domain, lookup, enriched >>

\* research_company and generate_outreach called twice on one input.
twice == << twice_input, answers >>

\* A batch processed with every Company an object of its own.
own == << batch, taken, current, objects, held >>

\* The variables the pipeline's steps leave alone.
bench == << company_name, slug, ai, built, sub, enricher, twice, own >>

\* The variables of the pipeline's methods.
pipeline == << source, max_signals, json_mode, entry, pc, send_emails, args,
               asked, signals, idx, stage, company, page, page_url, outreach,
               email_sent, results, ret, calls >>

locals == << company, page, page_url, outreach, email_sent >>

\* What a call of run or run_single fixes before the first signal is processed.
call == << entry, send_emails, args, asked, signals >>

-----------------------------------------------------------------------------
\* Data

SignalTypes == {"hiring", "funding"}

hiring_signal ==
    [ id |-> "sig_demo_001", type |-> "hiring",
      company_name |-> "TechStartup Inc", company_domain |-> "techstartup.io",
      details |-> "Posted job: Head of Marketing" ]

funding_signal ==
    [ id |-> "sig_demo_003", type |-> "funding",
      company_name |-> "DataFlow Labs", company_domain |-> "dataflowlabs.com",
      details |-> "Raised $5M Series A led by Sequoia" ]

SignalPool == { hiring_signal, funding_signal }

\* The second signal of MockLinktClient's list.
cloudscale_signal ==
    [ id |-> "sig_demo_002", type |-> "hiring",
      company_name |-> "CloudScale AI", company_domain |-> "cloudscale.ai",
      details |-> "Posted job: First Sales Hire - Account Executive" ]

Domains == { "techstartup.io", "dataflowlabs.com", "unknown-co.xyz" }

SeqsUpTo(S, n) == UNION { [1..k -> S] : k \in 0..n }

\* The values max_signals is given: int(os.getenv("MAX_SIGNALS", "5")),
\* int(args[limit_idx]), PipelineConfig(max_signals=...); any int, here the
\* ones around the lengths of the source.
Limits == -1..MaxSignals

\* A dict is a function from its keys to strings; d.get(k) is None for a
\* missing key.
DictGet(d, k) == IF k \in DOMAIN d THEN d[k] ELSE None

\* Python truthiness of an Optional[str].
Truthy(s) == s # None /\ s # ""

\* The target contacts an enricher may attach to a Company
\* (Company.target_contact: Optional[dict]): None, {}, a contact without
\* email, with an empty email, with an email.
TargetContacts ==
    { NoObject,
      << [ k \in {} |-> "" ] >>,
      << [ name |-> "Jane Smith" ] >>,
      << [ name |-> "Jane Smith", email |-> "" ] >>,
      << [ name |-> "Jane Smith", email |-> "jane@techstartup.io" ] >> }

-----------------------------------------------------------------------------
\* Collaborators, as far as the pipeline's control flow reads their results

\* PipelineConfig.signal_types (default None).
signal_types == NoObject

\* The signal_type argument run passes to get_signals.
FilterKind(signal_type) ==
    IF Truthy(signal_type) THEN signal_type
    ELSE IF Len(signal_types) > 0 THEN signal_types[1] ELSE None

\* Python's list[:limit]: the first limit elements, and for a negative limit
\* all but the last -limit ones.
Take(list, limit) ==
    LET stop == IF limit < 0 THEN Len(list) + limit
                ELSE IF limit < Len(list) THEN limit ELSE Len(list)
    IN  [ k \in 1..stop |-> list[k] ]

\* [s for s in list if s.type == kind]
RECURSIVE FilterType(_, _)
FilterType(list, kind) ==
    IF list = << >> THEN << >>
    ELSE IF Head(list).type = kind
         THEN << Head(list) >> \o FilterType(Tail(list), kind)
         ELSE FilterType(Tail(list), kind)

get_signals(all_signals, signal_type, limit) ==
    IF Truthy(signal_type)
    THEN Take(FilterType(all_signals, signal_type), limit)
    ELSE Take(all_signals, limit)

\* domain.split(".")[0].replace("-", " ").title() on the domains of the model.
DomainName(domain) ==
    CASE domain = "techstartup.io"   -> "Techstartup"
      [] domain = "dataflowlabs.com" -> "Dataflowlabs"
      [] domain = "unknown-co.xyz"   -> "Unknown Co"

\* domain.split(".")[0].title() on the domains of the model.
SignalName(domain) ==
    CASE domain = "techstartup.io"   -> "Techstartup"
      [] domain = "dataflowlabs.com" -> "Dataflowlabs"
      [] domain = "unknown-co.xyz"   -> "Unknown-Co"

\* The Company an enricher returns for a domain; target_contact is whatever
\* the enricher attaches.
enrich_company(domain, contact) ==
    IF domain = "techstartup.io"
    THEN [ name |-> "TechStartup Inc", domain |-> domain,
           signal_type |-> "hiring", signal_details |-> "Hiring Head of Marketing",
           value_props |-> << >>, pain_points |-> << >>, tone |-> None,
           founders |-> << "Jane Smith", "John Doe" >>,
           target_contact |-> contact ]
    ELSE IF domain = "cloudscale.ai"
    THEN [ name |-> "CloudScale AI", domain |-> domain,
           signal_type |-> "hiring", signal_details |-> "First Sales Hire",
           value_props |-> << >>, pain_points |-> << >>, tone |-> None,
           founders |-> << "Alex Chen" >>,
           target_contact |-> contact ]
    ELSE [ name |-> DomainName(domain), domain |-> domain,
           signal_type |-> "custom", signal_details |-> None,
           value_props |-> << >>, pain_points |-> << >>, tone |-> None,
           founders |-> << >>,
           target_contact |-> contact ]

research_company(c) ==
    IF c.domain = "techstartup.io"
    THEN [ c EXCEPT
             !.value_props = << "Reduce manual workflow time by 80%",
                                "Easy integration with existing tools",
                                "AI-powered automation that learns from usage" >>,
             !.pain_points = << "Building marketing team from scratch",
                                "Need marketing automation and analytics",
                                "Scaling customer acquisition efficiently" >>,
             !.tone = "professional" ]
    ELSE IF c.domain = "cloudscale.ai"
    THEN [ c EXCEPT
             !.value_props = << "Cut cloud costs by 40% with ML optimization",
                                "Auto-scaling that actually works",
                                "DevOps team productivity boost" >>,
             !.pain_points = << "First sales hire - building sales process",
                                "Need CRM and sales enablement tools",
                                "Scaling revenue without scaling headcount" >>,
             !.tone = "technical" ]
    ELSE [ c EXCEPT
             !.value_props = << "Increase efficiency", "Save time", "Reduce costs" >>,
             !.pain_points = << "Scaling challenges", "Process automation",
                                "Team productivity" >>,
             !.tone = "professional" ]

\* GeneratedPage(company=..., deployed_url=None).
generate_page(c) == [ company |-> c, deployed_url |-> NoObject ]

\* The URL a deployer returns for a page (a string, written as its parts).
deploy_page(p) == << "file://./output/", p.company.name, "/index.html" >>

\* Mutant of email_subject: the kind of the signal is not looked at.
email_subject_generic(c) == << "Quick question for ", c.name >>

\* The subject line of the template draft (a string, written as its parts).
email_subject(c) ==
    IF c.signal_type = "hiring"
    THEN << "Re: ", c.name, "'s ",
            IF Truthy(c.signal_details) THEN c.signal_details ELSE "new hire" >>
    ELSE IF c.signal_type = "funding"
         THEN << "Congrats on the raise, ", c.name, "!" >>
         ELSE << "Quick question for ", c.name >>

generate_outreach(c, landing_page_url) ==
    [ company |-> c, email_subject |-> email_subject(c),
      landing_page_url |-> landing_page_url ]

-----------------------------------------------------------------------------
\* The pipeline

\* Python's str(bool).
BoolStr(b) == IF b THEN "True" ELSE "False"

\* One collaborator call made while processing signals[idx]; out is "ok",
\* "True", "False" or "raise".
Call(op, out) == [ op |-> op, sig |-> idx, out |-> out ]

\* Mutant of EmailGate: the send_emails flag is not consulted.
EmailGateIgnoresFlag(send, c) ==
    /\ Len(c.target_contact) = 1
    /\ DOMAIN c.target_contact[1] # {}
    /\ Truthy(DictGet(c.target_contact[1], "email"))

\* Mutant of EmailGate: the first founder stands in for the target contact,
\* as it does in the drafts.
EmailGateOnFounders(send, c) ==
    /\ send
    /\ \/ c.founders # << >>
       \/ /\ Len(c.target_contact) = 1
          /\ DOMAIN c.target_contact[1] # {}
          /\ Truthy(DictGet(c.target_contact[1], "email"))

\* "if send_emails and company.target_contact: email = ...get("email");
\*  if email:"  (an empty dict is falsy).
EmailGate(send, c) ==
    /\ send
    /\ Len(c.target_contact) = 1
    /\ DOMAIN c.target_contact[1] # {}
    /\ Truthy(DictGet(c.target_contact[1], "email"))

\* Mutant of AppendResult: a new result is put in front of the list.
AppendResultInFront(rs, result) == IF Len(result) = 1 THEN result \o rs ELSE rs

\* "result = self._process_signal(...); if result: results.append(result)"
AppendResult(rs, result) == IF Len(result) = 1 THEN rs \o result ELSE rs

\* Mutant of NoSignals: the empty list is not told apart.
NoSignalsNever(fetched) == FALSE

\* "if not signals: return results"
NoSignals(fetched) == Len(fetched) = 0

\* Mutant of StageAfter: the outreach is drafted before the page is deployed.
StageAfterDraftsFirst(s) ==
    CASE s = "enrich"   -> "research"
      [] s = "research" -> "generate"
      [] s = "generate" -> "outreach"
      [] s = "outreach" -> "deploy"
      [] s = "deploy"   -> "email"
      [] s = "email"    -> "notify"

\* The order of the steps in _process_signal's try block.
StageAfter(s) ==
    CASE s = "enrich"   -> "research"
      [] s = "research" -> "generate"
      [] s = "generate" -> "deploy"
      [] s = "deploy"   -> "outreach"
      [] s = "outreach" -> "email"
      [] s = "email"    -> "notify"

\* Mutant of OverwriteSignal: only the kind is taken from the signal.
OverwriteSignalKindOnly(c, signal) == [ c EXCEPT !.signal_type = signal.type ]

\* "company.signal_type = signal.type; company.signal_details = signal.details"
OverwriteSignal(c, signal) ==
    [ c EXCEPT !.signal_type = signal.type, !.signal_details = signal.details ]

\* Mutant of SetDeployedUrl: the page is left as generate_page made it.
SetDeployedUrlForgotten(p, url) == p

\* "page.deployed_url = page_url"
SetDeployedUrl(p, url) == [ p EXCEPT !.deployed_url = url ]

\* Mutant of ManualSignal: the signal_type argument is not used.
ManualSignalAlwaysCustom(domain, signal_type, signal_details) ==
    [ id |-> << "manual_", domain >>, type |-> "custom",
      company_name |-> SignalName(domain), company_domain |-> domain,
      details |-> signal_details ]

\* run_single: "signal = Signal(id=f"manual_{domain}", type=signal_type, ...)"
ManualSignal(domain, signal_type, signal_details) ==
    [ id |-> << "manual_", domain >>, type |-> signal_type,
      company_name |-> SignalName(domain), company_domain |-> domain,
      details |-> signal_details ]

ResetLocals ==
    /\ company' = NoObject
    /\ page' = NoObject
    /\ page_url' = NoObject
    /\ outreach' = NoObject
    /\ email_sent' = FALSE

\* _process_signal returns result (a PipelineResult, or None) to its caller:
\* run appends it and goes on with the next signal, or prints the summary and
\* returns the list; run_single returns it.
Return(result) ==
    /\ ResetLocals
    /\ IF entry = "run"
       THEN /\ results' = AppendResult(results, result)
            /\ IF idx < Len(signals)
               THEN /\ idx' = idx + 1
                    /\ stage' = "enrich"
                    /\ UNCHANGED << pc, ret >>
               ELSE /\ pc' = "returned"
                    /\ ret' = results'
                    /\ stage' = "none"
                    /\ UNCHANGED idx
       ELSE /\ pc' = "returned"
            /\ ret' = result
            /\ stage' = "none"
            /\ UNCHANGED << results, idx >>

\* Mutant of Except: the handler lets the exception go on to run's caller.
ExceptReraises ==
    /\ ResetLocals
    /\ pc' = "raised"
    /\ stage' = "none"
    /\ UNCHANGED << idx, results, ret >>

\* Mutant of Except: the failure is swallowed where it happens and the signal
\* carries on to the notification.
ExceptCarriesOn ==
    /\ stage' = "notify"
    /\ UNCHANGED << locals, pc, idx, results, ret >>

\* Mutant of Except: the handler returns what the steps had got to.
ExceptKeepsResult ==
    Return(<< [ sig |-> idx, company |-> company, page |-> page,
                outreach |-> outreach, page_url |-> page_url,
                email_sent |-> email_sent, notified |-> FALSE ] >>)

\* "except Exception as e: ... return None"
Except == Return(NoObject)

\* No function is being studied on its own.
NoSlug ==
    /\ company_name = << >>
    /\ slug = NoObject

NoAI ==
    /\ given = NoObject
    /\ response = NoObject
    /\ returned = NoObject

\* The environment and the flags are not looked at.
NotBuilt ==
    /\ env = << >>
    /\ argv = {}
    /\ components = NoObject

NoSub ==
    /\ command = "none"
    /\ stdin_data = NoObject

NoEnricher ==
    /\ company_domain = << >>
    /\ lookup = NoObject
    /\ enriched = NoObject

NoTwice ==
    /\ twice_input = NoObject
    /\ answers = << >>

NoOwn ==
    /\ batch = << >>
    /\ taken = 0
    /\ current = NoObject
    /\ objects = << >>
    /\ held = << >>

NoBench == NoSlug /\ NoAI /\ NotBuilt /\ NoSub /\ NoEnricher /\ NoTwice /\ NoOwn

\* No method of the pipeline has been called.
NotCalled ==
    /\ entry = "none"
    /\ pc = "idle"
    /\ send_emails = FALSE
    /\ args = << >>
    /\ asked = << >>
    /\ signals = << >>
    /\ idx = 0
    /\ stage = "none"
    /\ company = NoObject
    /\ page = NoObject
    /\ page_url = NoObject
    /\ outreach = NoObject
    /\ email_sent = FALSE
    /\ results = << >>
    /\ ret = << >>
    /\ calls = << >>
    /\ stdout = << >>

\* A constructed pipeline none of whose methods has been called.
Constructed ==
    /\ source \in SeqsUpTo(SignalPool, MaxSignals)
    /\ max_signals \in Limits
    /\ NotCalled
    /\ NoBench

\* The pipeline is not in play.
NoPipeline ==
    /\ source = << >>
    /\ max_signals = 0
    /\ json_mode = FALSE
    /\ NotCalled

\* The pipeline as a library, or under the command line without --json.
Init == json_mode = FALSE /\ Constructed

\* cli.main, "--limit" in args: the limit is written into the config object
\* the pipeline was constructed with, before run is called.
SetLimit ==
    /\ pc = "idle"
    /\ \E limit \in Limits \ { max_signals } : max_signals' = limit
    /\ UNCHANGED << source, json_mode, call, pc, idx, stage, locals, results,
                    ret, calls, stdout, bench >>

\* run(signal_type, send_emails) up to the loop: get_signals either raises
\* (nothing in run catches it) or returns a list; an empty list returns [].
run ==
    /\ pc = "idle"
    /\ \E signal_type \in {None} \cup SignalTypes, send \in BOOLEAN :
         /\ entry' = "run"
         /\ send_emails' = send
         /\ args' = [ signal_type |-> signal_type ]
         /\ asked' = << [ signal_type |-> FilterKind(signal_type),
                          limit |-> max_signals ] >>
         /\ results' = << >>
         /\ \/ /\ pc' = "raised"
               /\ calls' = Append(calls, [ op |-> "get_signals", sig |-> 0, out |-> "raise" ])
               /\ UNCHANGED << signals, idx, stage, ret >>
            \/ LET fetched == get_signals(source, FilterKind(signal_type), max_signals)
               IN  /\ signals' = fetched
                   /\ calls' = Append(calls, [ op |-> "get_signals", sig |-> 0, out |-> "ok" ])
                   /\ IF NoSignals(fetched)
                      THEN /\ pc' = "returned"
                           /\ ret' = << >>
                           /\ UNCHANGED << idx, stage >>
                      ELSE /\ pc' = "processing"
                           /\ idx' = 1
                           /\ stage' = "enrich"
                           /\ UNCHANGED ret
    /\ UNCHANGED << source, max_signals, json_mode, locals, stdout, bench >>

\* run_single(domain, signal_type, signal_details, send_email): builds the
\* signal itself and hands it to _process_signal.
run_single ==
    /\ pc = "idle"
    /\ \E domain \in Domains, signal_type \in {"custom"} \cup SignalTypes,
          signal_details \in {"", "Custom test signal"}, send \in BOOLEAN :
         /\ entry' = "run_single"
         /\ send_emails' = send
         /\ args' = [ domain |-> domain, signal_type |-> signal_type,
                      signal_details |-> signal_details ]
         /\ signals' = << ManualSignal(domain, signal_type, signal_details) >>
    /\ pc' = "processing"
    /\ idx' = 1
    /\ stage' = "enrich"
    /\ UNCHANGED << source, max_signals, json_mode, asked, locals, results, ret,
                    calls, stdout, bench >>

Processing(s) == pc = "processing" /\ stage = s

\* Step 2: company = self.linkt.enrich_company(domain); signal_type and
\* signal_details are overwritten from the signal.
EnrichCompany ==
    /\ Processing("enrich")
    /\ \/ /\ calls' = Append(calls, Call("enrich_company", "raise"))
          /\ Except
       \/ \E contact \in TargetContacts :
            /\ calls' = Append(calls, Call("enrich_company", "ok"))
            /\ company' = OverwriteSignal(
                              enrich_company(signals[idx].company_domain, contact),
                              signals[idx])
            /\ stage' = StageAfter(stage)
            /\ UNCHANGED << page, page_url, outreach, email_sent,
                            pc, idx, results, ret >>
    /\ UNCHANGED << source, max_signals, json_mode, call, stdout, bench >>

\* Step 3: company = self.researcher.research_company(company)
ResearchCompany ==
    /\ Processing("research")
    /\ \/ /\ calls' = Append(calls, Call("research_company", "raise"))
          /\ Except
       \/ /\ calls' = Append(calls, Call("research_company", "ok"))
          /\ company' = research_company(company)
          /\ stage' = StageAfter(stage)
          /\ UNCHANGED << page, page_url, outreach, email_sent,
                          pc, idx, results, ret >>
    /\ UNCHANGED << source, max_signals, json_mode, call, stdout, bench >>

\* Step 4: page = self.page_generator.generate_page(company)
GeneratePage ==
    /\ Processing("generate")
    /\ \/ /\ calls' = Append(calls, Call("generate_page", "raise"))
          /\ Except
       \/ /\ calls' = Append(calls, Call("generate_page", "ok"))
          /\ page' = generate_page(company)
          /\ stage' = StageAfter(stage)
          /\ UNCHANGED << company, page_url, outreach, email_sent,
                          pc, idx, results, ret >>
    /\ UNCHANGED << source, max_signals, json_mode, call, stdout, bench >>

\* Step 5: page_url = self.deployer.deploy_page(page); page.deployed_url = page_url
DeployPage ==
    /\ Processing("deploy")
    /\ \/ /\ calls' = Append(calls, Call("deploy_page", "raise"))
          /\ Except
       \/ /\ calls' = Append(calls, Call("deploy_page", "ok"))
          /\ page_url' = deploy_page(page)
          /\ page' = SetDeployedUrl(page, page_url')
          /\ stage' = StageAfter(stage)
          /\ UNCHANGED << company, outreach, email_sent, pc, idx, results, ret >>
    /\ UNCHANGED << source, max_signals, json_mode, call, stdout, bench >>

\* Step 6: outreach = self.outreach_generator.generate_outreach(company, page_url)
GenerateOutreach ==
    /\ Processing("outreach")
    /\ \/ /\ calls' = Append(calls, Call("generate_outreach", "raise"))
          /\ Except
       \/ /\ calls' = Append(calls, Call("generate_outreach", "ok"))
          /\ outreach' = generate_outreach(company, page_url)
          /\ stage' = StageAfter(stage)
          /\ UNCHANGED << company, page, page_url, email_sent,
                          pc, idx, results, ret >>
    /\ UNCHANGED << source, max_signals, json_mode, call, stdout, bench >>

\* Step 7: email_sent = False; the sender is called only behind the gate.
SendEmail ==
    /\ Processing("email")
    /\ IF EmailGate(send_emails, company)
       THEN \/ /\ calls' = Append(calls, Call("send_email", "raise"))
               /\ Except
            \/ \E sent \in BOOLEAN :
                 /\ calls' = Append(calls, Call("send_email", BoolStr(sent)))
                 /\ email_sent' = sent
                 /\ stage' = StageAfter(stage)
                 /\ UNCHANGED << company, page, page_url, outreach,
                                 pc, idx, results, ret >>
       ELSE /\ email_sent' = FALSE
            /\ stage' = StageAfter(stage)
            /\ UNCHANGED << company, page, page_url, outreach,
                            pc, idx, results, ret, calls >>
    /\ UNCHANGED << source, max_signals, json_mode, call, stdout, bench >>

\* Mutant of PipelineResult: a notifier that answers False fails the signal.
PipelineResultOnlyIfNotified(notified) ==
    IF notified
    THEN << [ sig |-> idx, company |-> company, page |-> page,
              outreach |-> outreach, page_url |-> page_url,
              email_sent |-> email_sent, notified |-> notified ] >>
    ELSE NoObject

\* "return PipelineResult(company=company, ..., notified=notified)".  sig is
\* history: the position in signals of the signal the result came from.
PipelineResult(notified) ==
    << [ sig |-> idx, company |-> company, page |-> page,
         outreach |-> outreach, page_url |-> page_url,
         email_sent |-> email_sent, notified |-> notified ] >>

\* Step 8: notified = self.notifier.send_pipeline_result(company, page, outreach)
SendNotification ==
    /\ Processing("notify")
    /\ \/ /\ calls' = Append(calls, Call("send_pipeline_result", "raise"))
          /\ Except
       \/ \E notified \in BOOLEAN :
            /\ calls' = Append(calls, Call("send_pipeline_result", BoolStr(notified)))
            /\ Return(PipelineResult(notified))
    /\ UNCHANGED << source, max_signals, json_mode, call, stdout, bench >>

Next ==
    \/ SetLimit
    \/ run
    \/ run_single
    \/ EnrichCompany
    \/ ResearchCompany
    \/ GeneratePage
    \/ DeployPage
    \/ GenerateOutreach
    \/ SendEmail
    \/ SendNotification

Spec == Init /\ [][Next]_vars

-----------------------------------------------------------------------------
\* The command line's full run in --json mode (cli.main)

\* _result_to_dict, for the fields of a result the model carries.
result_to_dict(result) ==
    [ company_name |-> result.company.name,
      company_domain |-> result.company.domain,
      signal_type |-> result.company.signal_type,
      signal_details |-> result.company.signal_details,
      page_url |-> result.page_url,
      email_subject |-> result.outreach.email_subject,
      email_sent |-> result.email_sent,
      notified |-> result.notified ]

\* [r.page_url for r in results if r.page_url]: None and "" are left out.
RECURSIVE page_urls(_)
page_urls(rs) ==
    IF rs = << >> THEN << >>
    ELSE IF Len(Head(rs).page_url) > 0
         THEN << Head(rs).page_url >> \o page_urls(Tail(rs))
         ELSE page_urls(Tail(rs))

\* Mutant of Envelope: success tells whether anything came through.
EnvelopeSuccessIfAny(rs) ==
    [ success |-> Len(rs) > 0,
      count |-> Len(rs),
      signals_processed |-> Len(rs),
      pages_generated |-> Len(rs),
      outreach_drafted |-> Len(rs),
      results |-> [ k \in 1..Len(rs) |-> result_to_dict(rs[k]) ],
      page_urls |-> page_urls(rs),
      summary |-> << "Processed ", Len(rs), " signals, generated ", Len(rs),
                     " pages" >> ]

\* The "output" dict main prints after run has returned.
Envelope(rs) ==
    [ success |-> TRUE,
      count |-> Len(rs),
      signals_processed |-> Len(rs),
      pages_generated |-> Len(rs),
      outreach_drafted |-> Len(rs),
      results |-> [ k \in 1..Len(rs) |-> result_to_dict(rs[k]) ],
      page_urls |-> page_urls(rs),
      summary |-> << "Processed ", Len(rs), " signals, generated ", Len(rs),
                     " pages" >> ]

\* "results = pipeline.run(...); if json_mode: print(json.dumps(output))"
PrintEnvelope ==
    /\ json_mode
    /\ entry = "run"
    /\ pc = "returned"
    /\ stdout = << >>
    /\ stdout' = << Envelope(ret) >>
    /\ UNCHANGED << source, max_signals, json_mode, call, pc, idx, stage, locals,
                    results, ret, calls, bench >>

JsonInit == json_mode = TRUE /\ Constructed

\* main's pipeline is built by get_linkt_client: LinktClient.get_signals
\* catches every exception and returns [], MockLinktClient.get_signals only
\* slices a list; neither raises.
JsonRun == run /\ pc' # "raised"

JsonNext ==
    \/ SetLimit
    \/ JsonRun
    \/ EnrichCompany
    \/ ResearchCompany
    \/ GeneratePage
    \/ DeployPage
    \/ GenerateOutreach
    \/ SendEmail
    \/ SendNotification
    \/ PrintEnvelope

JsonSpec == JsonInit /\ [][JsonNext]_vars

\* Mutant of single_output: a failed run is reported as an error object.
single_output_with_error(result) ==
    IF Len(result) = 1
    THEN << result_to_dict(result[1]) >>
    ELSE << [ success |-> FALSE, error |-> "processing failed" ] >>

\* "if result: if json_mode: print(json.dumps(_result_to_dict(result)))":
\* what main writes after run_single, nothing for None.
single_output(result) ==
    IF Len(result) = 1 THEN << result_to_dict(result[1]) >> ELSE << >>

\* main with --json and --domain: the pipeline's own list of signals is not
\* looked at.
SingleInit ==
    /\ json_mode = TRUE
    /\ source = << >>
    /\ max_signals \in Limits
    /\ NotCalled
    /\ NoBench

\* "result = pipeline.run_single(domain=domain, signal_type=signal_type,
\* signal_details=signal_details)": the details are main's, send_email is
\* left at its default.
MainRunSingle ==
    /\ run_single
    /\ args'.signal_details = "Custom test signal"
    /\ ~send_emails'

\* "if result: ...; return": main is over, with or without a result.
PrintSingleResult ==
    /\ json_mode
    /\ entry = "run_single"
    /\ pc = "returned"
    /\ stdout' = single_output(ret)
    /\ pc' = "exited"
    /\ UNCHANGED << source, max_signals, json_mode, call, idx, stage, locals,
                    results, ret, calls, bench >>

SingleNext ==
    \/ MainRunSingle
    \/ EnrichCompany
    \/ ResearchCompany
    \/ GeneratePage
    \/ DeployPage
    \/ GenerateOutreach
    \/ SendEmail
    \/ SendNotification
    \/ PrintSingleResult

SingleSpec == SingleInit /\ [][SingleNext]_vars

-----------------------------------------------------------------------------
\* PageGenerator._generate_slug, on names written as sequences of characters

Uppercase == { "A" }
Lowercase == { "a", "b" }
Digits == { "7" }
Whitespace == { " ", "\t" }

\* The characters of a company name: upper and lower case letters, digits,
\* white space, hyphen, underscore, punctuation.
Alphabet == Uppercase \cup Lowercase \cup Digits \cup Whitespace \cup { "-", "_", "!" }

\* str.lower() on a character of the alphabet.
LowerChar(ch) == IF ch = "A" THEN "a" ELSE ch

Lower(name) == [ k \in 1..Len(name) |-> LowerChar(name[k]) ]

RECURSIVE DropRun(_, _)
DropRun(str, class) ==
    IF str # << >> /\ Head(str) \in class THEN DropRun(Tail(str), class) ELSE str

\* re.sub("[class]+", "-", str): every maximal run of characters of the class
\* becomes one hyphen.
RECURSIVE SubRuns(_, _)
SubRuns(str, class) ==
    IF str = << >> THEN << >>
    ELSE IF Head(str) \in class
         THEN << "-" >> \o SubRuns(DropRun(Tail(str), class), class)
         ELSE << Head(str) >> \o SubRuns(Tail(str), class)

RECURSIVE DropRunAtEnd(_, _)
DropRunAtEnd(str, class) ==
    IF str # << >> /\ str[Len(str)] \in class
    THEN DropRunAtEnd(SubSeq(str, 1, Len(str) - 1), class)
    ELSE str

\* str.strip("-")
Strip(str) == DropRunAtEnd(DropRun(str, { "-" }), { "-" })

\* re.sub(r"[^a-z0-9\s-]", "", slug)
RemoveSpecial(str) ==
    SelectSeq(str, LAMBDA ch : ch \in Lowercase \cup Digits \cup Whitespace \cup { "-" })

\* Mutant of generate_slug: runs of hyphens are not collapsed.
generate_slug_no_collapse(name) ==
    Strip(SubRuns(RemoveSpecial(Lower(name)), Whitespace \cup { "_" }))

generate_slug(name) ==
    Strip(SubRuns(SubRuns(RemoveSpecial(Lower(name)), Whitespace \cup { "_" }),
                  { "-" }))

SlugInit ==
    /\ company_name \in SeqsUpTo(Alphabet, MaxNameLen)
    /\ slug = NoObject
    /\ NoPipeline
    /\ NoAI /\ NotBuilt /\ NoSub /\ NoEnricher /\ NoTwice /\ NoOwn

\* slug = self._generate_slug(company.name)
GenerateSlug ==
    /\ slug' = << generate_slug(company_name) >>
    /\ UNCHANGED << pipeline, stdout, company_name, ai, built, sub, enricher, twice, own >>

SlugNext == GenerateSlug

SlugSpec == SlugInit /\ [][SlugNext]_vars

-----------------------------------------------------------------------------
\* The AI-backed stages, each on its own: CompanyResearcher.research_company,
\* PageGenerator.generate_page and OutreachGenerator.generate_outreach with
\* an OpenAI client

ResearchKeys == { "value_props", "pain_points", "tone" }

CopyKeys == { "headline", "subheadline", "pain_points", "value_props",
              "cta_text", "cta_action" }

OutreachKeys == { "email_subject", "email_body", "linkedin_message" }

\* What "self.client.chat.completions.create(...)" and the parsing of
\* "response.choices[0].message.content" come to:
\*   "raises"      the call raised, or the message had no content;
\*   "no_json"     the text is not JSON: re.search finds no {...} and
\*                 json.loads raises, or json.loads raises on the match;
\*   "not_object"  the text is JSON with no brace in it (a list, a string, a
\*                 number, null): json.loads(result) returns it;
\*   "object"      the text holds a JSON object with these keys.
Responses(keys) ==
    { [ kind |-> k, keys |-> {} ] : k \in { "raises", "no_json", "not_object" } }
    \cup { [ kind |-> "object", keys |-> K ] : K \in SUBSET keys }

\* dict.get(k, default)
GetOr(d, k, default) == IF k \in DOMAIN d THEN d[k] ELSE default

\* How a stage ends: it returns a value or an exception leaves it.
Returns(v) == [ raised |-> FALSE, value |-> << v >> ]
Raises == [ raised |-> TRUE, value |-> NoObject ]

\* The object the model answers the research prompt with, for the keys it has.
ResearchAnswer(keys) ==
    [ k \in keys |->
        CASE k = "value_props" -> << "Shorter sales cycles" >>
          [] k = "pain_points" -> << "Hiring takes too long" >>
          [] k = "tone"        -> "casual" ]

\* "except Exception as e: ... data = {...}"
DefaultResearch ==
    [ value_props |-> << "Innovative solutions", "Industry expertise",
                         "Customer focus" >>,
      pain_points |-> << "Scaling challenges", "Market competition",
                         "Resource optimization" >>,
      tone |-> "professional" ]

\* CompanyResearcher.research_company.  _browser_research catches every
\* exception and touches none of the three fields.  The try block ends with
\* json.loads; "data.get" is called after it, on whatever was parsed.
CompanyResearcher_research_company(c, r) ==
    IF r.kind = "not_object"
    THEN Raises
    ELSE LET data == IF r.kind = "object"
                     THEN ResearchAnswer(r.keys) ELSE DefaultResearch
         IN  Returns([ c EXCEPT
                         !.value_props = GetOr(data, "value_props", << >>),
                         !.pain_points = GetOr(data, "pain_points", << >>),
                         !.tone = GetOr(data, "tone", "professional") ])

\* PipelineConfig.your_value_prop, as main sets it.
your_value_prop == "AI-powered automation that saves you 10+ hours/week"

\* The first three titles of a list, filled up to three.
ThreeOf(list, filler) ==
    LET first == Take(list, 3)
    IN  first \o [ k \in 1..(3 - Len(first)) |-> filler ]

\* PageGenerator._generate_copy_template (the strings written as their parts;
\* of a pain point or value prop, the title).
generate_copy_template(c) ==
    [ headline |->
        IF c.signal_type = "hiring"
        THEN << "Scaling your ",
                IF Truthy(c.signal_details) THEN c.signal_details ELSE "team",
                "?" >>
        ELSE IF c.signal_type = "funding"
             THEN << "Congratulations on the raise, ", c.name, "!" >>
             ELSE << "Built for teams like ", c.name >>,
      subheadline |->
        IF c.signal_type = "hiring"
        THEN << "We help companies like ", c.name,
                " build and scale faster with ", your_value_prop, "." >>
        ELSE IF c.signal_type = "funding"
             THEN << "Smart companies use their runway wisely. ",
                     your_value_prop, " helps you scale efficiently." >>
             ELSE << "See how ", your_value_prop, " can help your team." >>,
      pain_points |-> ThreeOf(c.pain_points, "Scaling efficiently"),
      value_props |-> ThreeOf(c.value_props, "Proven results"),
      cta_text |-> << "Book a Demo" >>,
      cta_action |->
        IF c.signal_type = "hiring" THEN << "accelerate your growth" >>
        ELSE IF c.signal_type = "funding" THEN << "maximize your runway" >>
             ELSE << "see how we can help" >> ]

\* The object the model answers the copy prompt with, for the keys it has.
CopyAnswer(keys) == [ k \in keys |-> << "AI ", k >> ]

\* PageGenerator._generate_copy_ai: what json.loads returned is returned as
\* it is (object tells whether it is a dict); any exception gives the
\* template copy.
generate_copy_ai(c, r) ==
    CASE r.kind = "object"     -> [ object |-> TRUE, dict |-> CopyAnswer(r.keys) ]
      [] r.kind = "not_object" -> [ object |-> FALSE, dict |-> << >> ]
      [] OTHER                 -> [ object |-> TRUE, dict |-> generate_copy_template(c) ]

\* PageGenerator.generate_page with a client: copy["headline"], ...,
\* copy["cta_action"] are read outside any try; html_content is the template
\* rendered with them.
PageGenerator_generate_page(c, r) ==
    LET copy == generate_copy_ai(c, r)
    IN  IF copy.object /\ CopyKeys \subseteq DOMAIN copy.dict
        THEN Returns([ company |-> c, html_content |-> copy.dict,
                       deployed_url |-> NoObject ])
        ELSE Raises

\* OutreachGenerator._generate_outreach_ai: the whole body, the reads of
\* data["email_subject"] and data["email_body"] included, is in the try;
\* any exception gives the template draft.
OutreachGenerator_generate_outreach(c, landing_page_url, r) ==
    IF r.kind = "object" /\ { "email_subject", "email_body" } \subseteq r.keys
    THEN Returns([ company |-> c, email_subject |-> << "AI ", "email_subject" >>,
                   landing_page_url |-> landing_page_url ])
    ELSE Returns(generate_outreach(c, landing_page_url))

\* The signals of the source and the ones run_single makes.
AnySignal ==
    SignalPool \cup
    { ManualSignal(domain, signal_type, signal_details) :
        domain \in Domains, signal_type \in {"custom"} \cup SignalTypes,
        signal_details \in {"", "Custom test signal"} }

\* The companies step 2 of _process_signal hands to research, and the ones
\* the mock researcher hands on.
Enriched ==
    { OverwriteSignal(enrich_company(s.company_domain, NoObject), s) : s \in AnySignal }

Researched == { research_company(c) : c \in Enriched }

AIInit ==
    /\ given \in { << c >> : c \in Enriched \cup Researched }
    /\ response = NoObject
    /\ returned = NoObject
    /\ NoPipeline
    /\ NoSlug /\ NotBuilt /\ NoSub /\ NoEnricher /\ NoTwice /\ NoOwn

Stage(name, outcome) ==
    << [ stage |-> name, raised |-> outcome.raised, value |-> outcome.value ] >>

\* company = self.researcher.research_company(company), the researcher a
\* CompanyResearcher
ResearchWithAI ==
    /\ returned = NoObject
    /\ given[1] \in Enriched
    /\ \E r \in Responses(ResearchKeys) :
         /\ response' = << r >>
         /\ returned' = Stage("research",
                              CompanyResearcher_research_company(given[1], r))
    /\ UNCHANGED << pipeline, stdout, company_name, slug, given, built, sub, enricher, twice, own >>

\* company = self.researcher.research_company(company), the researcher a
\* MockCompanyResearcher: no completion is asked for
ResearchWithMock ==
    /\ returned = NoObject
    /\ given[1] \in Enriched
    /\ returned' = Stage("research", Returns(research_company(given[1])))
    /\ UNCHANGED << pipeline, stdout, company_name, slug, given, response,
                    built, sub, enricher, twice, own >>

\* page = self.page_generator.generate_page(company), self.client set
GeneratePageWithAI ==
    /\ returned = NoObject
    /\ given[1] \in Researched
    /\ \E r \in Responses(CopyKeys) :
         /\ response' = << r >>
         /\ returned' = Stage("generate_page",
                              PageGenerator_generate_page(given[1], r))
    /\ UNCHANGED << pipeline, stdout, company_name, slug, given, built, sub, enricher, twice, own >>

\* outreach = self.outreach_generator.generate_outreach(company, page_url),
\* self.client set
GenerateOutreachWithAI ==
    /\ returned = NoObject
    /\ given[1] \in Researched
    /\ \E r \in Responses(OutreachKeys) :
         /\ response' = << r >>
         /\ returned' = Stage("generate_outreach",
                              OutreachGenerator_generate_outreach(
                                  given[1], deploy_page(generate_page(given[1])), r))
    /\ UNCHANGED << pipeline, stdout, company_name, slug, given, built, sub, enricher, twice, own >>

AINext ==
    \/ ResearchWithAI
    \/ ResearchWithMock
    \/ GeneratePageWithAI
    \/ GenerateOutreachWithAI

AISpec == AIInit /\ [][AINext]_vars

-----------------------------------------------------------------------------
\* The sub-stage commands of the command line (cli._handle_subcommand)

\* The first arguments main hands to _handle_subcommand.
SubCommands == { "fetch", "research", "generate-pages", "deploy",
                 "draft-outreach", "send", "notify" }

\* fetch: "limit = 5"
DefaultLimit == 5

\* _generate_slug on the company names of the model.
SlugOfName(name) ==
    CASE name = "TechStartup Inc" -> "techstartup-inc"
      [] name = "Dataflowlabs"    -> "dataflowlabs"
      [] name = "Unknown Co"      -> "unknown-co"

\* fetch: the object printed for the fetched signals.
fetch_output(fetched) == [ signals |-> fetched, count |-> Len(fetched) ]

\* research: every signal of the input is enriched, gets the signal's kind
\* and details, and is researched.
research_output(data) ==
    LET sigs == GetOr(data, "signals", << >>)
        companies == [ k \in 1..Len(sigs) |->
                         research_company(
                             OverwriteSignal(
                                 enrich_company(sigs[k].company_domain, NoObject),
                                 sigs[k])) ]
    IN  [ companies |-> companies, count |-> Len(companies) ]

\* generate-pages: a page is generated and saved for every company.
generate_pages_output(data) ==
    LET cs == GetOr(data, "companies", << >>)
        pages == [ k \in 1..Len(cs) |->
                     [ company |-> cs[k], slug |-> SlugOfName(cs[k].name) ] ]
    IN  [ pages |-> pages, count |-> Len(pages) ]

\* deploy: the local path of every page.
deploy_output(data) ==
    LET ps == GetOr(data, "pages", << >>)
        urls == [ k \in 1..Len(ps) |->
                    [ slug |-> ps[k].slug,
                      url |-> << "file://./output/", ps[k].slug, "/index.html" >>,
                      company |-> ps[k].company ] ]
    IN  [ urls |-> urls, count |-> Len(urls) ]

\* draft-outreach: a draft for every deployed page; the summary has a line
\* for each draft.
draft_outreach_output(data) ==
    LET items == GetOr(data, "urls", << >>)
        drafts == [ k \in 1..Len(items) |->
                      [ company_name |-> items[k].company.name,
                        company_domain |-> items[k].company.domain,
                        page_url |-> items[k].url,
                        email_subject |->
                          generate_outreach(items[k].company, items[k].url).email_subject ] ]
    IN  [ drafts |-> drafts, count |-> Len(drafts),
          summary |-> [ k \in 1..Len(drafts) |->
                          << "- ", drafts[k].company_name, ": ",
                             drafts[k].email_subject >> ] ]

\* notify: the count of the input is passed on.
notify_output(data) == [ notified |-> TRUE, count |-> GetOr(data, "count", 0) ]

\* "if not stdin_data": no --stdin, or an empty object.
NoInputData(data) == data = NoObject \/ DOMAIN data[1] = {}

\* What the command prints when none of the calls it makes raises.
subcommand_output(cmd, data, fetched) ==
    IF cmd = "fetch" THEN fetch_output(fetched)
    ELSE IF cmd \in { "research", "generate-pages", "deploy", "draft-outreach",
                      "notify" }
         THEN IF NoInputData(data) THEN [ error |-> << "No input data" >> ]
              ELSE CASE cmd = "research"       -> research_output(data[1])
                     [] cmd = "generate-pages" -> generate_pages_output(data[1])
                     [] cmd = "deploy"         -> deploy_output(data[1])
                     [] cmd = "draft-outreach" -> draft_outreach_output(data[1])
                     [] cmd = "notify"         -> notify_output(data[1])
         ELSE [ error |-> << "Unknown command: ", cmd >> ]

\* The commands that call a collaborator for this input: research, the
\* linkt client and the researcher; generate-pages, the page generator;
\* draft-outreach, the outreach generator; notify, the notifier.  Nothing in
\* _handle_subcommand or main catches what they raise.
CallsCollaborator(cmd, data) ==
    /\ ~NoInputData(data)
    /\ \/ cmd = "research" /\ GetOr(data[1], "signals", << >>) # << >>
       \/ cmd = "generate-pages" /\ GetOr(data[1], "companies", << >>) # << >>
       \/ cmd = "draft-outreach" /\ GetOr(data[1], "urls", << >>) # << >>
       \/ cmd = "notify"

\* The objects the stages write, each the input of the next one.
SignalObjects == { fetch_output(l) : l \in SeqsUpTo(SignalPool, MaxSignals) }
CompanyObjects == { research_output(o) : o \in SignalObjects }
PageObjects == { generate_pages_output(o) : o \in CompanyObjects }
UrlObjects == { deploy_output(o) : o \in PageObjects }
DraftObjects == { draft_outreach_output(o) : o \in UrlObjects }

\* What json.load(sys.stdin) gives: nothing without --stdin, an empty
\* object, or the object a stage wrote.
StdinData ==
    { NoObject, << << >> >> }
    \cup { << o >> : o \in SignalObjects \cup CompanyObjects \cup PageObjects
                          \cup UrlObjects \cup DraftObjects }

SubInit ==
    /\ command \in SubCommands
    /\ stdin_data \in StdinData
    /\ source \in SeqsUpTo(SignalPool, MaxSignals)
    /\ max_signals = 0
    /\ json_mode = FALSE
    /\ NotCalled
    /\ NoSlug /\ NoAI /\ NotBuilt /\ NoEnricher /\ NoTwice /\ NoOwn

\* _handle_subcommand(command, args, json_mode): the command prints one
\* object, or an exception of a collaborator leaves it.
HandleSubcommand ==
    /\ pc = "idle"
    /\ command \in SubCommands
    /\ \/ /\ CallsCollaborator(command, stdin_data)
          /\ pc' = "raised"
          /\ UNCHANGED stdout
       \/ \E signal_type \in SignalTypes, limit \in Limits \cup { DefaultLimit } :
            /\ pc' = "returned"
            /\ stdout' = << subcommand_output(
                                command, stdin_data,
                                get_signals(source, signal_type, limit)) >>
    /\ UNCHANGED << source, max_signals, json_mode, call, idx, stage, locals,
                    results, ret, calls, company_name, slug, ai, built, sub, enricher, twice, own >>

SubNext == HandleSubcommand

SubSpec == SubInit /\ [][SubNext]_vars

-----------------------------------------------------------------------------
\* Construction: cli.main's config, PipelineConfig's defaults, and the
\* factories SignalToSitePipeline.__init__ calls

\* The environment variables main and the factories read.
EnvNames == { "LINKT_API_KEY", "OPENAI_API_KEY", "SMTP_USER", "SMTP_PASSWORD",
              "DEPLOY_PLATFORM", "NOTIFY_PLATFORM" }

EnvValue(name) ==
    CASE name = "DEPLOY_PLATFORM" -> "netlify"
      [] name = "NOTIFY_PLATFORM" -> "slack"
      [] OTHER                    -> "secret"

\* os.environ: any of the variables may be set.
Environments == { [ name \in K |-> EnvValue(name) ] : K \in SUBSET EnvNames }

\* cli.main: "config = PipelineConfig(...)"
MainConfig(flags, e) ==
    LET demo_mode == "--demo" \in flags \/ ~Truthy(DictGet(e, "LINKT_API_KEY"))
    IN  [ demo_mode |-> demo_mode,
          deploy_platform |-> IF demo_mode THEN "local"
                              ELSE GetOr(e, "DEPLOY_PLATFORM", "local"),
          notify_platform |-> IF demo_mode THEN "mock"
                              ELSE GetOr(e, "NOTIFY_PLATFORM", "mock"),
          quiet_mode |-> "--json" \in flags,
          max_signals |-> 5 ]

\* PipelineConfig's own defaults, for a caller that sets no mode.
DefaultConfig ==
    [ demo_mode |-> FALSE, deploy_platform |-> "local",
      notify_platform |-> "mock", quiet_mode |-> FALSE, max_signals |-> 10 ]

\* Mutant of get_linkt_client: a missing key is not looked at.
get_linkt_client_by_mode_only(e, demo_mode) ==
    IF demo_mode THEN "MockLinktClient" ELSE "LinktClient"

get_linkt_client(e, demo_mode) ==
    IF demo_mode \/ ~Truthy(DictGet(e, "LINKT_API_KEY"))
    THEN "MockLinktClient" ELSE "LinktClient"

\* Mutant of get_researcher: the mode is not looked at.
get_researcher_by_key_only(e, demo_mode) ==
    IF ~Truthy(DictGet(e, "OPENAI_API_KEY"))
    THEN "MockCompanyResearcher" ELSE "CompanyResearcher"

get_researcher(e, demo_mode) ==
    IF demo_mode \/ ~Truthy(DictGet(e, "OPENAI_API_KEY"))
    THEN "MockCompanyResearcher" ELSE "CompanyResearcher"

\* Mutant of openai_client: a client is made without a key.
openai_client_without_key(e) == "OpenAI"

\* PageGenerator.__init__ and OutreachGenerator.__init__: self.client is an
\* OpenAI client when OPENAI_API_KEY is set, None (template only) otherwise.
openai_client(e) ==
    IF Truthy(DictGet(e, "OPENAI_API_KEY")) THEN "OpenAI" ELSE None

get_email_sender(e, demo_mode) ==
    IF demo_mode \/ ~Truthy(DictGet(e, "SMTP_USER"))
    THEN "MockEmailSender" ELSE "EmailSender"

\* EmailSender.__init__ raises ValueError without user or password.
EmailSenderRaises(e, demo_mode) ==
    /\ get_email_sender(e, demo_mode) = "EmailSender"
    /\ ~Truthy(DictGet(e, "SMTP_PASSWORD"))

\* get_deployer(platform): the local deployer unless a remote platform is named.
get_deployer(platform) ==
    IF platform = "netlify" THEN "NetlifyDeployer" ELSE "LocalDeployer"

\* get_notifier(platform): the mock notifier, a silent one for "none", a
\* live one when a chat platform is named.
get_notifier(platform) ==
    CASE platform = "slack" -> "SlackNotifier"
      [] platform = "none"  -> "NullNotifier"
      [] OTHER              -> "MockNotifier"

\* Mutant of Components: the notifier is the configured one in quiet mode too.
ComponentsNotQuiet(config, e) ==
    [ linkt |-> get_linkt_client(e, config.demo_mode),
      researcher |-> get_researcher(e, config.demo_mode),
      page_generator |-> openai_client(e),
      deployer |-> get_deployer(config.deploy_platform),
      outreach_generator |-> openai_client(e),
      email_sender |-> get_email_sender(e, config.demo_mode),
      notifier |-> get_notifier(config.notify_platform) ]

\* SignalToSitePipeline.__init__: "Initialize components"
Components(config, e) ==
    [ linkt |-> get_linkt_client(e, config.demo_mode),
      researcher |-> get_researcher(e, config.demo_mode),
      page_generator |-> openai_client(e),
      deployer |-> get_deployer(config.deploy_platform),
      outreach_generator |-> openai_client(e),
      email_sender |-> get_email_sender(e, config.demo_mode),
      notifier |-> get_notifier(IF config.quiet_mode THEN "none"
                                ELSE config.notify_platform) ]

\* The variants that reach no external service.
IsMock(part, variant) ==
    CASE part = "linkt"      -> variant = "MockLinktClient"
      [] part = "researcher" -> variant = "MockCompanyResearcher"
      [] part \in { "page_generator", "outreach_generator" } -> variant = None
      [] part = "deployer"   -> variant = "LocalDeployer"
      [] part = "email_sender" -> variant = "MockEmailSender"
      [] part = "notifier"   -> variant = "MockNotifier"

\* all_signals of MockLinktClient.get_signals.
DemoSignals == << hiring_signal, cloudscale_signal, funding_signal >>

BuildInit ==
    /\ env \in Environments
    /\ argv \in SUBSET { "--demo" }
    /\ components = NoObject
    /\ NoPipeline
    /\ NoSlug /\ NoAI /\ NoSub /\ NoEnricher /\ NoTwice /\ NoOwn

\* pipeline = SignalToSitePipeline(config), with main's config or with the
\* defaults.  The mock client holds its own list of signals, the live one
\* whatever the service has.
Construct ==
    /\ pc = "idle"
    /\ components = NoObject
    /\ \E config \in { MainConfig(argv, env), DefaultConfig } :
         IF EmailSenderRaises(env, config.demo_mode)
         THEN /\ pc' = "raised"
              /\ UNCHANGED << components, source, max_signals >>
         ELSE /\ components' = << Components(config, env), config >>
              /\ max_signals' = config.max_signals
              /\ IF components'[1].linkt = "MockLinktClient"
                 THEN source' = DemoSignals
                 ELSE source' \in SeqsUpTo(SignalPool, 1)
              /\ UNCHANGED pc
    /\ UNCHANGED << json_mode, call, idx, stage, locals, results, ret, calls,
                    stdout, company_name, slug, ai, env, argv, sub, enricher, twice, own >>

\* What a mock or template-only component does when called: it returns, and
\* a mock sender or notifier answers True.
MockOutcome(part) ==
    IsMock(part, components[1][part])
    => \/ calls' = calls
       \/ calls'[Len(calls')].out \in { "ok", "True" }

BuiltRun == components # NoObject /\ JsonRun

\* Neither LinktClient.enrich_company nor MockLinktClient.enrich_company
\* passes a target_contact to Company(...): the field keeps its default.
BuiltEnrichCompany ==
    /\ EnrichCompany
    /\ MockOutcome("linkt")
    /\ stage' # "none" => company'.target_contact = NoObject

BuiltResearchCompany == ResearchCompany /\ MockOutcome("researcher")

BuiltGeneratePage == GeneratePage /\ MockOutcome("page_generator")

BuiltDeployPage == DeployPage /\ MockOutcome("deployer")

BuiltGenerateOutreach == GenerateOutreach /\ MockOutcome("outreach_generator")

BuiltSendEmail == SendEmail /\ MockOutcome("email_sender")

BuiltSendNotification == SendNotification /\ MockOutcome("notifier")

BuildNext ==
    \/ Construct
    \/ BuiltRun
    \/ BuiltEnrichCompany
    \/ BuiltResearchCompany
    \/ BuiltGeneratePage
    \/ BuiltDeployPage
    \/ BuiltGenerateOutreach
    \/ BuiltSendEmail
    \/ BuiltSendNotification

BuildSpec == BuildInit /\ [][BuildNext]_vars

\* main with or without --json: quiet_mode follows the flag.
QuietInit ==
    /\ env \in Environments
    /\ argv \in SUBSET { "--demo", "--json" }
    /\ components = NoObject
    /\ source = << >>
    /\ max_signals = 0
    /\ json_mode = ("--json" \in argv)
    /\ NotCalled
    /\ NoSlug /\ NoAI /\ NoSub /\ NoEnricher /\ NoTwice /\ NoOwn

QuietSpec == QuietInit /\ [][BuildNext]_vars

\* The pipeline as built, entered through run or through run_single.
BuiltRunSingle == components # NoObject /\ run_single

EntryNext ==
    \/ BuildNext
    \/ BuiltRunSingle

EntrySpec == BuildInit /\ [][EntryNext]_vars

-----------------------------------------------------------------------------
\* enrich_company of both clients, on domains written as sequences of
\* characters

\* Longest domain handed to enrich_company.
MaxDomainLen == 4

\* The characters of a domain: a letter in both cases, a digit, hyphen, dot.
DomainAlphabet == { "a", "A", "7", "-", "." }

IsLetter(ch) == ch \in { "a", "A" }

\* str.upper() on a character of the alphabet.
UpperChar(ch) == IF ch = "a" THEN "A" ELSE ch

\* domain.split(".")[0]
RECURSIVE FirstLabel(_)
FirstLabel(str) ==
    IF str = << >> \/ Head(str) = "." THEN << >>
    ELSE << Head(str) >> \o FirstLabel(Tail(str))

\* str.replace("-", " ")
ReplaceHyphens(str) ==
    [ k \in 1..Len(str) |-> IF str[k] = "-" THEN " " ELSE str[k] ]

\* str.title(): a letter that follows no letter is put in upper case, a
\* letter that follows a letter in lower case; the rest is kept.
Title(str) ==
    [ k \in 1..Len(str) |->
        IF IsLetter(str[k])
        THEN IF k > 1 /\ IsLetter(str[k - 1])
             THEN LowerChar(str[k]) ELSE UpperChar(str[k])
        ELSE str[k] ]

\* Mutant of FallbackName: the hyphens are kept.
FallbackNameKeepsHyphens(str) == Title(FirstLabel(str))

\* domain.split(".")[0].replace("-", " ").title()
FallbackName(str) == Title(ReplaceHyphens(FirstLabel(str)))

\* The name of an entity the service knows.
EntityName == << "A", "a", " ", "7" >>

\* What "entities = self.search_entities(domain=domain, limit=1)" and the
\* use of entities[0] come to:
\*   "none"     the search failed or found nothing: [] (search_entities
\*              catches every exception itself);
\*   "named"    an entity with a name;
\*   "unnamed"  an entity without a name;
\*   "broken"   what came back is no list of dicts, or Company(...) rejects
\*              its fields: an exception inside the try.
Lookups ==
    { [ client |-> "LinktClient", entities |-> e ] :
        e \in { "none", "named", "unnamed", "broken" } }
    \cup { [ client |-> "MockLinktClient", entities |-> "none" ] }

\* LinktClient.enrich_company
LinktClient_enrich_company(str, entities) ==
    CASE entities = "named" ->
           Returns([ name |-> EntityName, domain |-> str,
                     signal_type |-> "enrichment", target_contact |-> NoObject ])
      [] entities = "unnamed" ->
           Returns([ name |-> Title(FirstLabel(str)), domain |-> str,
                     signal_type |-> "enrichment", target_contact |-> NoObject ])
      [] OTHER ->
           Returns([ name |-> FallbackName(str), domain |-> str,
                     signal_type |-> "manual", target_contact |-> NoObject ])

\* MockLinktClient.enrich_company for a domain that is no key of mock_data
\* (the four keys are longer than the domains taken here; see enrich_company
\* for them).
MockLinktClient_enrich_company(str) ==
    Returns([ name |-> FallbackName(str), domain |-> str,
              signal_type |-> "custom", target_contact |-> NoObject ])

EnricherInit ==
    /\ company_domain \in SeqsUpTo(DomainAlphabet, MaxDomainLen)
    /\ lookup \in { << l >> : l \in Lookups }
    /\ enriched = NoObject
    /\ NoPipeline
    /\ NoSlug /\ NoAI /\ NotBuilt /\ NoSub /\ NoTwice /\ NoOwn

\* company = self.linkt.enrich_company(signal.company_domain)
Enrich ==
    /\ enriched = NoObject
    /\ enriched' = << IF lookup[1].client = "LinktClient"
                      THEN LinktClient_enrich_company(company_domain,
                                                      lookup[1].entities)
                      ELSE MockLinktClient_enrich_company(company_domain) >>
    /\ UNCHANGED << pipeline, stdout, company_name, slug, ai, built, sub,
                    company_domain, lookup, twice, own >>

EnricherNext == Enrich

EnricherSpec == EnricherInit /\ [][EnricherNext]_vars

-----------------------------------------------------------------------------
\* Research and outreach called twice on one input

\* PipelineConfig as main sets it: sender_name, sender_title,
\* your_company_name.
sender_name == "Alex"
sender_title == "Founder"
your_company_name == "Acme Inc"

\* "target = company.target_contact or (company.founders[0] if
\* company.founders else None)" and "target.get("name", "there") if target
\* else "there"" (an empty dict is false; of a founder the model keeps the
\* name).
target_name(c) ==
    IF Len(c.target_contact) = 1 /\ DOMAIN c.target_contact[1] # {}
    THEN GetOr(c.target_contact[1], "name", "there")
    ELSE IF c.founders # << >> THEN c.founders[1] ELSE "there"

\* The email body of the template draft (a string, written as its parts).
email_body(c, landing_page_url) ==
    << "Hi ", target_name(c), ",\n\n",
       IF c.signal_type = "hiring"
       THEN << "Noticed you're hiring for ",
               IF Truthy(c.signal_details) THEN c.signal_details ELSE "a key role",
               " - congrats on the growth!" >>
       ELSE IF c.signal_type = "funding"
            THEN << "Saw the news about your recent funding round - exciting times!" >>
            ELSE << "I've been following ", c.name,
                    "'s progress and had a quick thought." >>,
       "\n\n",
       IF c.pain_points # << >> THEN c.pain_points[1] ELSE "Scaling efficiently",
       " is something we help teams with at ", your_company_name, ". ",
       IF c.value_props # << >> THEN c.value_props[1]
       ELSE "We help companies like yours grow faster.",
       IF Truthy(landing_page_url)
       THEN << "\n\nI put together a quick page with some ideas specifically for ",
               c.name, ": ", landing_page_url >>
       ELSE << >>,
       "\n\nWould you be open to a quick 15-min chat to see if there's a fit?\n\nBest,\n",
       sender_name, "\n", sender_title, ", ", your_company_name >>

\* The LinkedIn message of the template draft; "[:300]" keeps the whole of
\* it for the names, details and pain points of the model, none of which
\* brings it near 300 characters.
linkedin_message(c) ==
    << "Hi ", target_name(c), "! Saw ", c.name, " is ",
       IF Truthy(c.signal_details) THEN c.signal_details ELSE "growing",
       ". We help similar companies with ",
       IF c.pain_points # << >> THEN c.pain_points[1] ELSE "scaling",
       ". Would love to connect!" >>

\* OutreachGenerator._generate_outreach_template, every field of the draft.
generate_outreach_template(c, landing_page_url) ==
    [ company |-> c,
      email_subject |-> email_subject(c),
      email_body |-> email_body(c, landing_page_url),
      linkedin_message |-> linkedin_message(c),
      landing_page_url |-> landing_page_url ]

\* OutreachGenerator._generate_outreach_ai, every field of the draft:
\* data["email_subject"], data["email_body"], data.get("linkedin_message");
\* any exception gives the template draft.
generate_outreach_ai(c, landing_page_url, r) ==
    IF r.kind = "object" /\ { "email_subject", "email_body" } \subseteq r.keys
    THEN [ company |-> c,
           email_subject |-> << "AI ", "email_subject" >>,
           email_body |-> << "AI ", "email_body" >>,
           linkedin_message |-> IF "linkedin_message" \in r.keys
                                THEN << "AI ", "linkedin_message" >> ELSE << None >>,
           landing_page_url |-> landing_page_url ]
    ELSE generate_outreach_template(c, landing_page_url)

\* The page URLs a draft is asked for (Optional[str]): none, or a URL.
PageUrls == { None, "file://./output/index.html" }

\* Only the two keys that choose the components are looked at.
TwiceInit ==
    /\ env \in { e \in Environments : DOMAIN e \subseteq { "LINKT_API_KEY", "OPENAI_API_KEY" } }
    /\ argv \in SUBSET { "--demo" }
    /\ components = NoObject
    /\ twice_input \in { << [ company |-> c, landing_page_url |-> u ] >> :
                           c \in Enriched \cup Researched, u \in PageUrls }
    /\ answers = << >>
    /\ NoPipeline
    /\ NoSlug /\ NoAI /\ NoSub /\ NoEnricher /\ NoOwn

\* One call of self.researcher.research_company(company) and one of
\* self.outreach_generator.generate_outreach(company, page_url), both on the
\* input: the researcher and the client are the ones the pipeline builds from
\* the environment, and each completion asked for is answered anew.
CallBoth ==
    /\ Len(answers) < 2
    /\ LET c == twice_input[1].company
           u == twice_input[1].landing_page_url
           demo_mode == MainConfig(argv, env).demo_mode
       IN  \E r1 \in Responses(ResearchKeys), r2 \in Responses(OutreachKeys) :
             answers' = Append(answers,
               [ research |->
                   IF get_researcher(env, demo_mode) = "MockCompanyResearcher"
                   THEN Returns(research_company(c))
                   ELSE CompanyResearcher_research_company(c, r1),
                 outreach |->
                   IF openai_client(env) = None
                   THEN generate_outreach_template(c, u)
                   ELSE generate_outreach_ai(c, u, r2) ])
    /\ UNCHANGED << pipeline, stdout, company_name, slug, ai, built, sub,
                    enricher, twice_input, own >>

TwiceNext == CallBoth

TwiceSpec == TwiceInit /\ [][TwiceNext]_vars

-----------------------------------------------------------------------------
\* The Company objects of a batch: who holds a reference to which

\* Mutant of Allocate: the enricher keeps one object per domain and hands it
\* out again.
AllocateCached(heap, c) ==
    IF \E ref \in DOMAIN heap : heap[ref].domain = c.domain
    THEN [ heap |-> heap,
           ref |-> CHOOSE ref \in DOMAIN heap : heap[ref].domain = c.domain ]
    ELSE [ heap |-> Append(heap, c), ref |-> Len(heap) + 1 ]

\* Company(...): a new object, known by a reference no other object has.
Allocate(heap, c) == [ heap |-> Append(heap, c), ref |-> Len(heap) + 1 ]

\* What a result holds, its references followed.
Deref(heap, result) ==
    [ company |-> heap[result.company],
      page |-> [ result.page EXCEPT !.company = heap[@] ],
      outreach |-> [ result.outreach EXCEPT !.company = heap[@] ] ]

OwnInit ==
    /\ batch \in [ 1..MaxSignals -> AnySignal ]
    /\ taken = 0
    /\ current = NoObject
    /\ objects = << >>
    /\ held = << >>
    /\ NoPipeline
    /\ NoSlug /\ NoAI /\ NotBuilt /\ NoSub /\ NoEnricher /\ NoTwice

\* Step 2 of _process_signal: enrich_company builds a Company (mock_data and
\* every Company in it are made inside the call), and the signal's kind and
\* details are written into that object.
OwnEnrich ==
    /\ current = NoObject
    /\ taken < Len(batch)
    /\ LET signal == batch[taken + 1]
           made == Allocate(objects, enrich_company(signal.company_domain, NoObject))
       IN  /\ objects' = [ made.heap EXCEPT ![made.ref] = OverwriteSignal(@, signal) ]
           /\ current' = << made.ref >>
    /\ UNCHANGED << pipeline, stdout, company_name, slug, ai, built, sub,
                    enricher, twice, batch, taken, held >>

\* Steps 3 to 8: research_company writes the three fields into the object it
\* was given and returns it; the page, the draft and the result hold that
\* object.
OwnFinish ==
    /\ current # NoObject
    /\ LET ref == current[1]
           heap == [ objects EXCEPT ![ref] = research_company(@) ]
           c == heap[ref]
       IN  /\ objects' = heap
           /\ held' = Append(held,
                [ company |-> ref,
                  page |-> [ company |-> ref, html_content |-> generate_copy_template(c) ],
                  outreach |-> [ company |-> ref, email_subject |-> email_subject(c) ] ])
    /\ current' = NoObject
    /\ taken' = taken + 1
    /\ UNCHANGED << pipeline, stdout, company_name, slug, ai, built, sub,
                    enricher, twice, batch >>

\* "except Exception": a step after the enrichment raised, nothing is held.
OwnDrop ==
    /\ current # NoObject
    /\ current' = NoObject
    /\ taken' = taken + 1
    /\ UNCHANGED << pipeline, stdout, company_name, slug, ai, built, sub,
                    enricher, twice, batch, objects, held >>

OwnNext ==
    \/ OwnEnrich
    \/ OwnFinish
    \/ OwnDrop

OwnSpec == OwnInit /\ [][OwnNext]_vars

-----------------------------------------------------------------------------
\* The template copy and draft for any kind of signal

\* Signal.type and the --signal argument are any string: the two kinds the
\* templates know, and others.
Kinds == { "hiring", "funding", "custom", "tech_adoption", "Hiring", "" }

\* Signal.details
Details == { "", "Head of Marketing", "Custom test signal" }

\* The companies steps 4 to 7 are given: of any kind, researched by the mock
\* researcher or not, with any target contact.
KindCompanies ==
    LET enriched_ones ==
          { [ enrich_company(d, contact) EXCEPT !.signal_type = k,
                                                !.signal_details = det ] :
              d \in Domains, contact \in TargetContacts, k \in Kinds, det \in Details }
    IN  enriched_ones \cup { research_company(c) : c \in enriched_ones }

TemplateInit ==
    /\ given \in { << c >> : c \in KindCompanies }
    /\ response = NoObject
    /\ returned = NoObject
    /\ NoPipeline
    /\ NoSlug /\ NotBuilt /\ NoSub /\ NoEnricher /\ NoTwice /\ NoOwn

\* Steps 4, 6 and 7 of _process_signal with no client: the copy and the
\* draft are the template's; the sender is asked only through the gate, and
\* may answer either way or raise.
TemplateStages ==
    /\ returned = NoObject
    /\ \E send \in BOOLEAN, sent \in { "True", "False", "raise" } :
         LET c == given[1]
             copy == generate_copy_template(c)
             draft == generate_outreach_template(c, "file://./output/index.html")
         IN  returned' =
               Stage("template",
                     IF EmailGate(send, c) /\ sent = "raise"
                     THEN Raises
                     ELSE Returns([ send_emails |-> send, copy |-> copy,
                                    outreach |-> draft,
                                    email_sent |-> EmailGate(send, c) /\ sent = "True" ]))
    /\ UNCHANGED << pipeline, stdout, company_name, slug, given, response,
                    built, sub, enricher, twice, own >>

TemplateNext == TemplateStages

TemplateSpec == TemplateInit /\ [][TemplateNext]_vars

-----------------------------------------------------------------------------
\* Reading the history

Steps1to5 == { "enrich_company", "research_company", "generate_page",
               "deploy_page", "generate_outreach" }

CallIndexes(op, i) == { k \in 1..Len(calls) : calls[k].op = op /\ calls[k].sig = i }

Called(op, i) == CallIndexes(op, i) # {}

\* The call of op for signal i returned (with whatever value).
Returned(op, i) == \E k \in CallIndexes(op, i) : calls[k].out # "raise"

\* Some call made for signal i raised.
Raised(i) == \E k \in 1..Len(calls) : calls[k].sig = i /\ calls[k].out = "raise"

\* _process_signal has returned for signal i.
Finished(i) ==
    /\ i \in 1..Len(signals)
    /\ \/ pc = "returned"
       \/ pc = "processing" /\ idx > i

\* The call (run or run_single) is over, by returning or by an exception.
Ended == pc \in { "returned", "raised" }

\* The results there are so far: the returned value once the call is over.
Produced == IF pc = "returned" THEN ret ELSE results

ResultsOf(i) == { k \in 1..Len(Produced) : Produced[k].sig = i }

-----------------------------------------------------------------------------
\* C1 (containment): when run is over and exactly one collaborator call raised,
\* the enrichment of one signal j of the N fetched, run has returned N-1
\* results: the other signals' results, in the order the signals were fetched.
C1_Containment ==
    (entry = "run" /\ Ended) =>
        \A j \in 1..Len(signals) :
            ( /\ \E k \in CallIndexes("enrich_company", j) : calls[k].out = "raise"
              /\ \A k \in 1..Len(calls) :
                     calls[k].out = "raise" =>
                         calls[k].op = "enrich_company" /\ calls[k].sig = j )
            => /\ pc = "returned"
               /\ Len(ret) = Len(signals) - 1
               /\ \A k \in 1..Len(ret) :
                     /\ ret[k].sig = IF k < j THEN k ELSE k + 1
                     /\ ret[k].company.domain = signals[ret[k].sig].company_domain
                     /\ ret[k].company.signal_type = signals[ret[k].sig].type

\* A two-signal run whose first signal failed in enrichment and whose second
\* signal came through.
C1_Witness ==
    /\ entry = "run" /\ pc = "returned"
    /\ Len(signals) = 2
    /\ calls[2] = [ op |-> "enrich_company", sig |-> 1, out |-> "raise" ]
    /\ ~Raised(2)
    /\ Len(ret) = 1 /\ ret[1].sig = 2

\* C2 (no escape): no exception ever leaves run or run_single, whatever the
\* collaborators do, get_signals raising included.
C2_NoExceptionEscapes == pc # "raised"

\* C3 (stages 1-5 abort the signal only): once one of enrich, research,
\* generate page, deploy, draft outreach has raised for a signal, the signal has
\* no result, no later collaborator call is made for it, and run goes on with
\* the next fetched signal (or returns, after the last one) instead of aborting.
C3_StageFailureDropsSignal ==
    \A k \in 1..Len(calls) :
        (calls[k].op \in Steps1to5 /\ calls[k].out = "raise") =>
            /\ ResultsOf(calls[k].sig) = {}
            /\ \A m \in (k + 1)..Len(calls) : calls[m].sig # calls[k].sig
            /\ pc \in { "processing", "returned" }
            /\ (entry = "run" /\ calls[k].sig < Len(signals)) =>
                   /\ pc = "processing" => idx > calls[k].sig
                   /\ pc = "returned" => k < Len(calls)
                   /\ k < Len(calls) =>
                          calls[k + 1] = [ op |-> "enrich_company",
                                           sig |-> calls[k].sig + 1,
                                           out |-> calls[k + 1].out ]
            /\ (entry = "run_single" /\ pc = "returned") => ret = NoObject

\* The deployment of the first of two signals raised; the second signal was
\* processed afterwards and is the only result.
C3_Witness ==
    /\ entry = "run" /\ pc = "returned"
    /\ Len(signals) = 2
    /\ \E k \in CallIndexes("deploy_page", 1) : calls[k].out = "raise"
    /\ Len(ret) = 1 /\ ret[1].sig = 2

\* C4 (email failure is absorbed): when the send_email call raised for a
\* signal, the signal was still notified and has a result with
\* email_sent = false.
C4_EmailRaiseIsAbsorbed ==
    \A k \in 1..Len(calls) :
        ( /\ calls[k].op = "send_email" /\ calls[k].out = "raise"
          /\ Finished(calls[k].sig) )
        => /\ Called("send_pipeline_result", calls[k].sig)
           /\ \E r \in ResultsOf(calls[k].sig) : ~Produced[r].email_sent

\* C5 (boolean outcomes never drop a signal): a signal none of whose calls
\* raised - whatever the notifier and the email sender answered, and whether or
\* not there was a target contact - has exactly one result, whose notified and
\* email_sent are the notifier's and the sender's answers (email_sent false when
\* the sender was not called).
C5_BooleanOutcomesKeepSignal ==
    \A i \in 1..Len(signals) :
        (Finished(i) /\ ~Raised(i)) =>
            /\ Cardinality(ResultsOf(i)) = 1
            /\ \A r \in ResultsOf(i) :
                 /\ Produced[r].notified =
                        (\E k \in CallIndexes("send_pipeline_result", i) :
                             calls[k].out = "True")
                 /\ Produced[r].email_sent =
                        (\E k \in CallIndexes("send_email", i) :
                             calls[k].out = "True")

\* Two results: the first for a company without target contact whose
\* notification answered False, the second for a signal whose email sender
\* answered False.
C5_Witness ==
    /\ entry = "run" /\ pc = "returned"
    /\ Len(ret) = 2
    /\ ret[1].company.target_contact = NoObject
    /\ ~ret[1].notified
    /\ \E k \in CallIndexes("send_email", 2) : calls[k].out = "False"
    /\ ~ret[2].email_sent

\* The gate as the claim words it: sendEmails, a target contact, and a
\* non-empty email in it.
C6_GateOpen ==
    /\ send_emails
    /\ company # NoObject
    /\ company.target_contact # NoObject
    /\ "email" \in DOMAIN company.target_contact[1]
    /\ company.target_contact[1].email \notin { "", None }

C6_SenderInvoked ==
    /\ Len(calls') = Len(calls) + 1
    /\ calls'[Len(calls')].op = "send_email"
    /\ calls'[Len(calls')].sig = idx

C6_Step ==
    Processing("email") =>
        /\ C6_SenderInvoked <=> C6_GateOpen
        /\ ~C6_SenderInvoked =>
               /\ calls' = calls
               /\ email_sent' = FALSE
               /\ stage' = "notify"

C6_Results ==
    /\ \A r \in 1..Len(Produced) :
           Produced[r].email_sent =>
               /\ send_emails
               /\ \E k \in CallIndexes("send_email", Produced[r].sig) :
                      calls[k].out = "True"
    /\ \A k \in 1..Len(calls) : calls[k].op = "send_email" => send_emails

\* C6 (email gating): at the email step the sender is invoked if and only if
\* sendEmails is true and the company has a target contact with a non-empty
\* email; when it is not invoked email_sent is false; so with sendEmails false
\* no send_email call is ever made and no result has email_sent true.
C6_EmailGating == []C6_Results /\ [][C6_Step]_vars

\* The sender was called for the first signal, and the second signal, whose
\* contact has an empty email, has a result without any send_email call.
C6_Witness ==
    /\ send_emails
    /\ Called("send_email", 1)
    /\ Len(Produced) = 2
    /\ Produced[2].sig = 2
    /\ Produced[2].company.target_contact =
           << [ name |-> "Jane Smith", email |-> "" ] >>
    /\ ~Called("send_email", 2)
    /\ ~Produced[2].email_sent

\* C7 (empty source): when get_signals returned an empty list, run has
\* returned the empty list and get_signals is the only collaborator call made.
C7_EmptySource ==
    ( /\ entry = "run"
      /\ Len(calls) >= 1 /\ calls[1].out = "ok"
      /\ Len(signals) = 0 )
    => /\ pc = "returned"
       /\ Len(ret) = 0
       /\ Len(calls) = 1

\* A source that holds signals, none of which matches the filter.
C7_Witness ==
    /\ entry = "run" /\ pc = "returned"
    /\ Len(source) > 0
    /\ Len(signals) = 0
    /\ calls = << [ op |-> "get_signals", sig |-> 0, out |-> "ok" ] >>

\* C8 (result ordering): in run, the results are exactly the signals whose
\* notification returned (they completed every step), each once, in the order
\* of the fetched list, each carrying its signal's domain and kind; this is the
\* list run returns.
C8_ResultOrdering ==
    entry = "run" =>
        LET done == { i \in 1..Len(signals) : Returned("send_pipeline_result", i) }
        IN  /\ { Produced[k].sig : k \in 1..Len(Produced) } = done
            /\ Len(Produced) = Cardinality(done)
            /\ \A k, m \in 1..Len(Produced) :
                   k < m => Produced[k].sig < Produced[m].sig
            /\ \A k \in 1..Len(Produced) :
                   /\ Produced[k].company.domain =
                          signals[Produced[k].sig].company_domain
                   /\ Produced[k].company.signal_type = signals[Produced[k].sig].type
            /\ pc = "returned" => ret = results

\* Two different signals both came through and are returned in fetch order.
C8_Witness ==
    /\ entry = "run" /\ pc = "returned"
    /\ Len(signals) = 2 /\ signals[1] # signals[2]
    /\ Len(ret) = 2
    /\ ret[1].company.domain = signals[1].company_domain
    /\ ret[2].company.domain = signals[2].company_domain

\* The pairs of calls that may follow one another within one signal.
C9_Successive ==
    { << "enrich_company", "research_company" >>,
      << "research_company", "generate_page" >>,
      << "generate_page", "deploy_page" >>,
      << "deploy_page", "generate_outreach" >>,
      << "generate_outreach", "send_email" >>,
      << "generate_outreach", "send_pipeline_result" >>,
      << "send_email", "send_pipeline_result" >> }

\* C9 (strict sequencing): within a signal the calls follow the order enrich,
\* research, generate page, deploy, draft outreach, (send email), notify, each
\* after the previous one returned; a signal's first call comes only after the
\* previous signal's last one (a raise, or the notification's return), when
\* that signal has its result or was dropped; and every fetched signal is
\* enriched at most once, exactly once when its turn is over.
C9_StrictSequencing ==
    /\ \A k \in 2..Len(calls) :
           LET a == calls[k - 1]
               b == calls[k]
           IN  \/ /\ a.op = "get_signals" /\ a.out = "ok"
                  /\ b.op = "enrich_company" /\ b.sig = 1
               \/ /\ a.sig >= 1 /\ b.sig = a.sig
                  /\ a.out # "raise"
                  /\ << a.op, b.op >> \in C9_Successive
               \/ /\ a.sig >= 1 /\ b.sig = a.sig + 1
                  /\ b.op = "enrich_company"
                  /\ a.out = "raise" \/ a.op = "send_pipeline_result"
    /\ Len(calls) >= 1 =>
           calls[1].op = IF entry = "run" THEN "get_signals" ELSE "enrich_company"
    /\ \A k \in 1..Len(calls) : calls[k].sig <= idx
    /\ pc = "processing" =>
           /\ idx \in 1..Len(signals)
           /\ \A i \in 1..(idx - 1) : (Cardinality(ResultsOf(i)) = 1) # Raised(i)
    /\ \A i \in 1..Len(signals) :
           /\ Cardinality(CallIndexes("enrich_company", i)) <= 1
           /\ Finished(i) => Called("enrich_company", i)

\* The first signal went through all seven calls, the email included, and the
\* second signal's enrichment followed.
C9_Witness ==
    /\ entry = "run"
    /\ Len(calls) >= 9
    /\ calls[7].op = "send_email"
    /\ calls[8].op = "send_pipeline_result" /\ calls[8].sig = 1
    /\ calls[9].op = "enrich_company" /\ calls[9].sig = 2

\* C10 (notify once): every signal whose steps 1-5 succeeded is notified
\* exactly once, after the email step, whether or not an email was attempted
\* or sent, and its result's notified is what the notifier returned.
C10_NotifiedExactlyOnce ==
    \A i \in 1..Len(signals) :
        (Finished(i) /\ Returned("generate_outreach", i)) =>
            /\ Cardinality(CallIndexes("send_pipeline_result", i)) = 1
            /\ \A e \in CallIndexes("send_email", i),
                  n \in CallIndexes("send_pipeline_result", i) : e < n
            /\ \A r \in ResultsOf(i) :
                   Produced[r].notified =
                       (\E n \in CallIndexes("send_pipeline_result", i) :
                            calls[n].out = "True")

\* The company a result (or a step in progress) carries has the kind and the
\* detail of signal i.
C11_FromSignal(c, i) ==
    /\ c.signal_type = signals[i].type
    /\ c.signal_details = signals[i].details

\* C11 (the signal's kind and detail win): the company that research, page
\* generation and outreach are given, and the company, the page's company and
\* the draft's company of every result, have the kind and the detail of the
\* triggering signal, whatever the enricher returned for the domain.
C11_SignalKindOverwritten ==
    /\ (pc = "processing" /\ company # NoObject) => C11_FromSignal(company, idx)
    /\ (pc = "processing" /\ page # NoObject) => C11_FromSignal(page.company, idx)
    /\ (pc = "processing" /\ outreach # NoObject) =>
           C11_FromSignal(outreach.company, idx)
    /\ \A k \in 1..Len(Produced) :
           /\ C11_FromSignal(Produced[k].company, Produced[k].sig)
           /\ C11_FromSignal(Produced[k].page.company, Produced[k].sig)
           /\ C11_FromSignal(Produced[k].outreach.company, Produced[k].sig)

\* run_single("techstartup.io", "funding", ...) has returned a result: the
\* enricher classifies that domain as hiring, with a detail of its own.
C11_Witness ==
    /\ entry = "run_single" /\ pc = "returned"
    /\ Len(ret) = 1
    /\ ret[1].company.domain = "techstartup.io"
    /\ enrich_company("techstartup.io", NoObject).signal_type = "hiring"
    /\ ret[1].company.signal_type = "funding"
    /\ ret[1].company.signal_details = "Custom test signal"
    /\ ret[1].outreach.email_subject[1] = "Congrats on the raise, "

\* Between two states the deployed URL of the page in hand is written only by
\* the deploy step, from unset to the URL the deployer returned, and the
\* results already produced are not touched.
C12_Step ==
    /\ (page # NoObject /\ page' # NoObject
            /\ page'.deployed_url # page.deployed_url) =>
           /\ Processing("deploy")
           /\ page.deployed_url = NoObject
           /\ calls' = Append(calls, Call("deploy_page", "ok"))
           /\ page'.deployed_url = deploy_page(page)
           /\ page'.deployed_url = page_url'
    /\ (page = NoObject /\ page' # NoObject) => page'.deployed_url = NoObject
    /\ entry' = entry =>
           /\ Len(results') >= Len(results)
           /\ \A k \in 1..Len(results) : results'[k] = results[k]

C12_State ==
    /\ (page # NoObject /\ stage = "deploy") =>
           page.deployed_url = NoObject /\ page_url = NoObject
    /\ (page # NoObject /\ stage \in { "outreach", "email", "notify" }) =>
           /\ page.deployed_url # NoObject
           /\ page.deployed_url = page_url
    /\ outreach # NoObject => outreach.landing_page_url = page_url
    /\ \A k \in 1..Len(Produced) :
           /\ Produced[k].page_url # NoObject
           /\ Produced[k].page.deployed_url = Produced[k].page_url
           /\ Produced[k].outreach.landing_page_url = Produced[k].page_url

\* C12 (deployed URL written once): a page's deployed_url is unset from its
\* creation until the deploy step, is written there once with the URL the
\* deployer returned and never changes afterwards; in every result
\* page.deployed_url = page_url = outreach.landing_page_url.
C12_DeployedUrlWriteOnce == []C12_State /\ [][C12_Step]_vars

\* A result whose page carries the URL deployed for it.
C12_Witness ==
    /\ Len(Produced) >= 1
    /\ Produced[1].page.deployed_url =
           << "file://./output/", "TechStartup Inc", "/index.html" >>
    /\ Produced[1].outreach.landing_page_url = Produced[1].page.deployed_url

\* C13 (work bound): run asks get_signals for max_signals signals, the value
\* the configuration holds when run is called; no more than max_signals
\* signals are fetched and put through the steps, and no more results made.
C13_WorkBound ==
    entry = "run" =>
        /\ Len(asked) = 1 /\ asked[1].limit = max_signals
        /\ \A i \in 1..Len(signals) : i <= max_signals
        /\ \A k \in 1..Len(calls) : calls[k].sig >= 1 => calls[k].sig <= max_signals
        /\ \A k \in 1..Len(Produced) : k <= max_signals

\* C14 (run_single): run_single never calls get_signals; it makes one signal
\* of the domain, kind and detail it was given, puts it through the steps
\* once, and returns the result when no step raised and None when one did.
C14_RunSingle ==
    entry = "run_single" =>
        /\ asked = << >>
        /\ \A k \in 1..Len(calls) : calls[k].op # "get_signals" /\ calls[k].sig = 1
        /\ Len(signals) = 1
        /\ signals[1].company_domain = args.domain
        /\ signals[1].type = args.signal_type
        /\ signals[1].details = args.signal_details
        /\ signals[1].id = << "manual_", args.domain >>
        /\ \A k, m \in 1..Len(calls) : calls[k].op = calls[m].op => k = m
        /\ pc \in { "processing", "returned" }
        /\ pc = "processing" => idx = 1
        /\ pc = "returned" =>
               /\ Called("enrich_company", 1)
               /\ (ret = NoObject) = Raised(1)
               /\ ret # NoObject =>
                      /\ Len(ret) = 1
                      /\ ret[1].company.domain = args.domain
                      /\ ret[1].company.signal_type = args.signal_type
                      /\ ret[1].company.signal_details = args.signal_details
                      /\ \A op \in Steps1to5 \cup { "send_pipeline_result" } :
                             Returned(op, 1)

\* run_single("unknown-co.xyz") with the default kind and detail has returned
\* a complete result.
C14_Witness ==
    /\ entry = "run_single" /\ pc = "returned"
    /\ args = [ domain |-> "unknown-co.xyz", signal_type |-> "custom",
                signal_details |-> "" ]
    /\ Len(ret) = 1
    /\ ret[1].company.name = "Unknown Co"
    /\ ret[1].company.signal_type = "custom"

\* Once run has returned, main prints the envelope, and nothing after it.
C20_Printed ==
    /\ (pc = "returned" /\ stdout = << >>) => ENABLED PrintEnvelope
    /\ stdout # << >> => ~ENABLED JsonNext

\* C20 (the JSON envelope of a full run): in --json mode a full run prints
\* exactly one envelope; its count is the number of results run returned, its
\* results are the results in their order, its page_urls are the results'
\* non-empty page URLs in that order, and success is true whatever failed -
\* the envelope is made of the returned results alone, so that a dropped
\* signal and a signal that was never there leave no different trace in it.
C20_JsonEnvelope ==
    (json_mode /\ entry = "run") =>
        /\ pc # "raised"
        /\ C20_Printed
        /\ Len(stdout) <= 1
        /\ Len(stdout) = 1 =>
               /\ pc = "returned"
               /\ stdout[1].success = TRUE
               /\ stdout[1].count = Len(ret)
               /\ Len(stdout[1].results) = Len(ret)
               /\ \A k \in 1..Len(ret) :
                      stdout[1].results[k] = result_to_dict(ret[k])
               /\ stdout[1].page_urls =
                      SelectSeq([ k \in 1..Len(ret) |-> ret[k].page_url ],
                                LAMBDA url : url # NoObject)

\* Two signals were fetched, both were dropped, and the envelope says
\* success with a count of 0.
C20_Witness ==
    /\ Len(signals) = 2
    /\ Raised(1) /\ Raised(2)
    /\ Len(stdout) = 1
    /\ stdout[1].success = TRUE
    /\ stdout[1].count = 0
    /\ stdout[1].results = << >>

\* C15 (slug): whatever the company name, the slug _generate_slug returns is
\* made of lower-case letters, digits and hyphens only, has no two hyphens in
\* a row and neither begins nor ends with a hyphen (the function reads nothing
\* but the name, so that the same name gives the same slug).
C15_SlugShape ==
    slug # NoObject =>
        LET s == slug[1]
        IN  /\ s = generate_slug(company_name)
            /\ \A k \in 1..Len(s) : s[k] \in Lowercase \cup Digits \cup { "-" }
            /\ \A k \in 1..(Len(s) - 1) : ~(s[k] = "-" /\ s[k + 1] = "-")
            /\ Len(s) > 0 => s[1] # "-" /\ s[Len(s)] # "-"

\* "A -b" gives "a-b": the space and the hyphen next to it end as one hyphen.
C15_Witness ==
    /\ company_name = << "A", " ", "-", "b" >>
    /\ slug = << << "a", "-", "b" >> >>

\* What each AI-backed stage needs of the object the model answers with.
Required(name) ==
    CASE name = "research"          -> ResearchKeys
      [] name = "generate_page"     -> CopyKeys
      [] name = "generate_outreach" -> { "email_subject", "email_body" }

\* The AI call failed, or its answer cannot be used: not JSON, not an object,
\* or an object that lacks a required field.
Unusable(r, name) == r.kind # "object" \/ ~(Required(name) \subseteq r.keys)

\* The deterministic output of each stage.
Fallback(name, c) ==
    CASE name = "research" ->
           [ c EXCEPT !.value_props = DefaultResearch.value_props,
                      !.pain_points = DefaultResearch.pain_points,
                      !.tone = DefaultResearch.tone ]
      [] name = "generate_page" ->
           [ company |-> c, html_content |-> generate_copy_template(c),
             deployed_url |-> NoObject ]
      [] name = "generate_outreach" ->
           generate_outreach(c, deploy_page(generate_page(c)))

\* C16 (self-recovery of the AI-backed stages): when the AI call of research,
\* page copy or outreach draft failed or its answer was unusable (unparseable,
\* or JSON lacking a required field), the stage returned normally and its
\* value is the deterministic default or template output.
C16_SelfRecovery ==
    (returned # NoObject /\ response # NoObject
       /\ Unusable(response[1], returned[1].stage))
    => /\ ~returned[1].raised
       /\ returned[1].value = << Fallback(returned[1].stage, given[1]) >>

Populated(c) == c.value_props # << >> /\ c.pain_points # << >> /\ c.tone # None

Unpopulated(c) == c.value_props = << >> /\ c.pain_points = << >> /\ c.tone = None

\* C17 (research is all or nothing): the company handed to research has no
\* value propositions, no pain points and no tone; the company research
\* returns, from the AI's answer, from the defaults or from the mock, has all
\* three; no company has some of the three and not the others.
C17_ResearchAllOrNothing ==
    /\ given[1] \in Enriched => Unpopulated(given[1])
    /\ (returned # NoObject /\ returned[1].stage = "research" /\ ~returned[1].raised)
       => Populated(returned[1].value[1])

\* The lists the stages write.
ListKeys == { "signals", "companies", "pages", "urls", "drafts" }

\* The key of its input object a command reads.
InputKey(cmd) ==
    CASE cmd = "research"       -> "signals"
      [] cmd = "generate-pages" -> "companies"
      [] cmd = "deploy"         -> "pages"
      [] cmd = "draft-outreach" -> "urls"
      [] cmd = "send"           -> "drafts"
      [] cmd = "notify"         -> "drafts"

\* The command was given its input object: fetch takes none, the others the
\* object the stage before them wrote.
InputGiven ==
    \/ command = "fetch"
    \/ /\ command \in SubCommands
       /\ stdin_data # NoObject
       /\ InputKey(command) \in DOMAIN stdin_data[1]

\* C19 (sub-stage protocol): every sub-stage command (fetch, research,
\* generate-pages, deploy, draft-outreach, send, notify), once it is over for
\* its input object, has written exactly one JSON object, which has a count
\* and one of the stages' lists, the count being the length of that list.
C19_SubStageProtocol ==
    (Ended /\ InputGiven)
    => /\ Len(stdout) = 1
       /\ "count" \in DOMAIN stdout[1]
       /\ \E k \in ListKeys :
            /\ k \in DOMAIN stdout[1]
            /\ stdout[1].count = Len(stdout[1][k])

\* None of LINKT_API_KEY, OPENAI_API_KEY, SMTP_USER is set.
NoCredentials ==
    \A name \in { "LINKT_API_KEY", "OPENAI_API_KEY", "SMTP_USER" } :
        name \notin DOMAIN env

AllMock ==
    \A part \in DOMAIN components[1] : IsMock(part, components[1][part])

Processed(i) == Called("enrich_company", i)

\* C21 (filter and limit of the source): what get_signals returned to run
\* has at most limit signals, and when a kind was asked for every signal is
\* of that kind; run processes exactly the signals returned; an empty list is
\* an ordinary result, after which run returns an empty list of results.
C21_FilterAndLimit ==
    (entry = "run" /\ pc # "raised")
    => /\ \A i \in 1..Len(signals) : i <= asked[1].limit
       /\ Truthy(asked[1].signal_type)
          => \A i \in 1..Len(signals) : signals[i].type = asked[1].signal_type
       /\ pc = "returned"
          => \A i \in 1..MaxSignals : Processed(i) <=> i <= Len(signals)
       /\ Len(signals) = 0 => pc = "returned" /\ ret = << >>

\* The enricher does not know the domain: its lookup found nothing or failed.
UnknownDomain == lookup[1].entities \in { "none", "broken" }

\* The part of the domain before its first dot.
LabelLen ==
    IF \E k \in 1..Len(company_domain) : company_domain[k] = "."
    THEN (CHOOSE k \in 1..Len(company_domain) :
            /\ company_domain[k] = "."
            /\ \A j \in 1..(k - 1) : company_domain[j] # ".") - 1
    ELSE Len(company_domain)

\* C22 (enrich always answers): for every domain, with the live and with the
\* mock client and whatever the entity lookup came to, enrich_company returns
\* a Company and does not raise, and the Company's domain is the domain
\* given.  For a domain the enricher does not know, the name is the first
\* label of the domain, character by character: a hyphen has become a space,
\* a letter is in upper case where it begins a word and in lower case
\* elsewhere, every other character is kept.
C22_EnrichAlwaysAnswers ==
    enriched # NoObject
    => /\ ~enriched[1].raised
       /\ Len(enriched[1].value) = 1
       /\ enriched[1].value[1].domain = company_domain
       /\ UnknownDomain
          => LET name == enriched[1].value[1].name
             IN  /\ Len(name) = LabelLen
                 /\ \A k \in 1..LabelLen :
                      LET ch == company_domain[k]
                          word == k = 1 \/ ~IsLetter(company_domain[k - 1])
                      IN  /\ ch = "-" => name[k] = " "
                          /\ IsLetter(ch) /\ word => name[k] = "A"
                          /\ IsLetter(ch) /\ ~word => name[k] = "a"
                          /\ ch = "7" => name[k] = "7"

\* An unknown domain of two hyphenated words before the dot.
C22_Witness ==
    /\ enriched # NoObject
    /\ UnknownDomain
    /\ company_domain = << "a", "-", "a", "." >>
    /\ enriched[1].value[1].name = << "A", " ", "A" >>

\* No AI key is set: the researcher is the mock one, the drafts are the
\* template's.
TemplateOnly == ~Truthy(DictGet(env, "OPENAI_API_KEY"))

C24_Ownership ==
    [][\A i \in 1..Len(held) :
         Deref(objects', held'[i]) = Deref(objects, held[i])]_vars

\* Two results for one domain out of two signals of different kinds, each
\* holding a Company of its own.
C24_Witness ==
    /\ Len(held) = 2
    /\ batch[1].company_domain = batch[2].company_domain
    /\ batch[1].type # batch[2].type
    /\ held[1].company # held[2].company
    /\ objects[held[1].company].signal_type = batch[1].type
    /\ objects[held[2].company].signal_type = batch[2].type

\* The parts a string of the model is written with.
Parts(str) == { str[k] : k \in 1..Len(str) }

\* C25 (template copy by kind): for every kind string the template copy and
\* draft are produced (only a raising email sender fails the steps).  For
\* "hiring" the headline is "Scaling your <detail>?", with "team" for an empty
\* detail, and the subject has the company name and the detail in it; for
\* "funding" headline and subject congratulate the company by name; for any
\* other kind both are the generic ones and name the company.  With no
\* target contact email_sent is false.
C25_TemplateByKind ==
    returned # NoObject
    => LET c == given[1]
           out == returned[1]
       IN  /\ out.raised => Len(c.target_contact) = 1
           /\ ~out.raised
              => LET headline == out.value[1].copy.headline
                     subject == out.value[1].outreach.email_subject
                 IN  /\ c.signal_type = "hiring"
                        => /\ headline = << "Scaling your ",
                                            IF c.signal_details = ""
                                            THEN "team" ELSE c.signal_details,
                                            "?" >>
                           /\ c.name \in Parts(subject)
                           /\ c.signal_details # "" => c.signal_details \in Parts(subject)
                     /\ c.signal_type = "funding"
                        => /\ headline = << "Congratulations on the raise, ", c.name, "!" >>
                           /\ subject = << "Congrats on the raise, ", c.name, "!" >>
                     /\ c.signal_type \notin { "hiring", "funding" }
                        => /\ headline = << "Built for teams like ", c.name >>
                           /\ subject = << "Quick question for ", c.name >>
                     /\ c.target_contact = NoObject => ~out.value[1].email_sent

\* A hiring signal without detail, no target contact, emails asked for.
C25_Witness ==
    /\ returned # NoObject
    /\ ~returned[1].raised
    /\ given[1].signal_type = "hiring"
    /\ given[1].signal_details = ""
    /\ given[1].target_contact = NoObject
    /\ returned[1].value[1].send_emails
    /\ returned[1].value[1].copy.headline = << "Scaling your ", "team", "?" >>
    /\ ~returned[1].value[1].email_sent

\* C26 (the sender is never reached): with the enrichers and researchers of
\* the repository, live or mock, no company ever has a target contact, so in
\* every run and run_single, emails asked for or not, founders known or not,
\* send_email is never called and every result has email_sent false.
C26_SenderNeverInvoked ==
    /\ \A k \in 1..Len(calls) : calls[k].op # "send_email"
    /\ \A k \in 1..Len(results) : ~results[k].email_sent
    /\ \A k \in 1..Len(ret) : ~ret[k].email_sent

\* Emails were asked for from a pipeline with the live client and a real
\* sender, and a result for a company with founders came back.
C26_Witness ==
    /\ components # NoObject
    /\ components[1].linkt = "LinktClient"
    /\ components[1].email_sender = "EmailSender"
    /\ send_emails
    /\ pc = "returned"
    /\ Len(ret) = 1
    /\ ret[1].company.founders # << >>
    /\ ~ret[1].email_sent

\* The steps of _process_signal that come after the deployment.
AfterDeploy == { "generate_outreach", "send_email", "send_pipeline_result" }

\* C27 (no rollback): when a step after a successful deployment raises, the
\* signal has no result, the deployment stays performed, and no collaborator
\* is called for the signal again: nothing undoes the deployment or retracts
\* an email already sent.  Every result has a deployed page.
C27_NoRollback ==
    /\ \A k \in 1..Len(calls) :
         (calls[k].out = "raise" /\ calls[k].op \in AfterDeploy)
         => /\ Returned("deploy_page", calls[k].sig)
            /\ \A j \in (k + 1)..Len(calls) : calls[j].sig # calls[k].sig
            /\ ResultsOf(calls[k].sig) = {}
    /\ \A k \in 1..Len(Produced) :
         /\ Returned("deploy_page", Produced[k].sig)
         /\ Produced[k].page.deployed_url = Produced[k].page_url

\* The run is over; the first signal's page was deployed and its email sent,
\* then the notifier raised: the page has no result.
C27_Witness ==
    /\ pc = "returned"
    /\ Returned("deploy_page", 1)
    /\ \E k \in CallIndexes("send_email", 1) : calls[k].out = "True"
    /\ \E k \in CallIndexes("send_pipeline_result", 1) : calls[k].out = "raise"
    /\ ResultsOf(1) = {}

\* C28 (what demo_mode governs): a pipeline built with demo_mode true has the
\* mock client, the mock researcher and the mock email sender whatever
\* credentials are set; its page generator and its outreach generator have an
\* AI client exactly when OPENAI_API_KEY is set, whatever demo_mode is.
C28_DemoModeScope ==
    components # NoObject
    => LET parts == components[1]
           config == components[2]
           key == Truthy(DictGet(env, "OPENAI_API_KEY"))
       IN  /\ config.demo_mode
              => /\ parts.linkt = "MockLinktClient"
                 /\ parts.researcher = "MockCompanyResearcher"
                 /\ parts.email_sender = "MockEmailSender"
           /\ parts.page_generator = "OpenAI" <=> key
           /\ parts.outreach_generator = "OpenAI" <=> key
           /\ parts.page_generator = None <=> ~key
           /\ parts.outreach_generator = None <=> ~key

\* --demo with every credential set: the three mocks, and two generators
\* with the live AI client.
C28_Witness ==
    /\ components # NoObject
    /\ components[2].demo_mode
    /\ "--demo" \in argv
    /\ { "LINKT_API_KEY", "OPENAI_API_KEY", "SMTP_USER", "SMTP_PASSWORD" }
         \subseteq DOMAIN env
    /\ components[1].linkt = "MockLinktClient"
    /\ components[1].researcher = "MockCompanyResearcher"
    /\ components[1].email_sender = "MockEmailSender"
    /\ components[1].page_generator = "OpenAI"
    /\ components[1].outreach_generator = "OpenAI"

\* The answer of the notifier for result r was what the result records.
C29_AsAnswered(r) ==
    \E k \in CallIndexes("send_pipeline_result", r.sig) :
        calls[k].out = BoolStr(r.notified)

====
